---------------------------- MODULE Spec2Model ----------------------------
(***************************************************************************)
(* A model of the data providers of qf-lib's futu / qlib adapters.         *)
(*                                                                         *)
(*   FutuDataProvider.get_history   (futu_data_provider.py, 90-187)        *)
(*   QLibDataProvider._process_df   (qlib_data_provider.py, 195-219)       *)
(*                                                                         *)
(* get_history is a state machine: one action per statement group of the   *)
(* method, the position held in pc.  The futu quote server is the          *)
(* environment: an archive of rows per ticker, served in pages, each       *)
(* request answered with RET_OK or with an error code.                     *)
(*                                                                         *)
(* Python values are tagged records (py |-> "DataFrame", py |-> "list",    *)
(* py |-> "str", ...) where the code's behaviour depends on the type.      *)
(* Datetimes are whole seconds since 00:00:00 of day 0.                    *)
(***************************************************************************)
EXTENDS Integers, Sequences, FiniteSets, TLC

VARIABLES
    pc,                 \* position in the modelled operation
    now,                \* self.timer.now()
    tickers_arg,        \* get_history(tickers=...), as passed
    fields_arg,         \* get_history(fields=...), as passed
    start_arg,          \* get_history(start_date=...), as passed
    end_arg,            \* get_history(end_date=...), as passed
    look_ahead_bias,    \* get_history(look_ahead_bias=...)
    frequency,          \* line 128
    loc,                \* the locals of lines 129-143 (a record)
    quote_ctx,          \* "none" | "open" | "closed"
    i,                  \* index of the for loop of line 150 (1-based)
    df,                 \* the frame of the ticker being fetched
    page_req_key,       \* the page key of the last response
    tickers_df_dict,    \* line 145: [keys: insertion order, frames]
    available_fields,   \* line 146
    qf_data_array,      \* line 183
    result,             \* the returned structure
    exc,                \* the exception that left get_history, or "None"
    requests,           \* history: every request_history_kline call
    pages,              \* history: the frames received for the current ticker
    env,                \* the process: the libraries installed, the archive path
    answer              \* the last query answered by a constructed QLibDataProvider

vars == <<pc, now, tickers_arg, fields_arg, start_arg, end_arg,
          look_ahead_bias, frequency, loc, quote_ctx, i, df, page_req_key,
          tickers_df_dict, available_fields, qf_data_array, result, exc,
          requests, pages, env, answer>>

request_vars == <<now, tickers_arg, fields_arg, start_arg, end_arg,
                  look_ahead_bias, frequency, env>>

---------------------------------------------------------------------------
(* Bounds of the model.                                                    *)

MaxDay == 3
MaxTickers == 2
PageSize == 2
MaxRawRows == 3

---------------------------------------------------------------------------
(* Time.                                                                   *)

SecondsPerMinute == 60
SecondsPerHour == 3600
SecondsPerDay == 86400

DateTime(day, hour, minute, second) ==
    day * SecondsPerDay + hour * SecondsPerHour + minute * SecondsPerMinute + second

DayOf(dt) == dt \div SecondsPerDay
SecondOfDay(dt) == dt % SecondsPerDay

\* dt + RelativeDelta(second=0, microsecond=0): the absolute fields replace
\* the datetime's own.
WithSecondZero(dt) == dt - (dt % SecondsPerMinute)

\* dt + RelativeDelta(hour=h, minute=m): hour and minute replaced, seconds kept.
WithHourMinute(dt, h, m) ==
    DayOf(dt) * SecondsPerDay + h * SecondsPerHour + m * SecondsPerMinute
        + (dt % SecondsPerMinute)

\* datetime.strftime('%Y-%m-%d'): the calendar date alone.
StrftimeYmd(dt) == DayOf(dt)

Min(a, b) == IF a <= b THEN a ELSE b

RECURSIVE SortedSeq(_)
SortedSeq(S) ==
    IF S = {} THEN <<>>
    ELSE LET m == CHOOSE x \in S : \A y \in S : x <= y
         IN  <<m>> \o SortedSeq(S \ {m})

Range(s) == {s[k] : k \in DOMAIN s}

\* The position of the first occurrence of x in s, 0 when absent.
IndexOf(s, x) ==
    IF x \in Range(s)
    THEN CHOOSE k \in DOMAIN s : s[k] = x /\ \A j \in 1..(k - 1) : s[j] # x
    ELSE 0

---------------------------------------------------------------------------
(* Market session events and the clock, as the tests set them.             *)

MarketCloseHour == 15
MarketCloseTrigger(day) == DateTime(day, MarketCloseHour, 0, 0)

---------------------------------------------------------------------------
(* Values.                                                                 *)

NaN == -1

Tickers == {"AAPL", "MSFT"}
DAILY == "DAILY"

\* Frequency.DAILY and the lower frequencies (freq <= Frequency.DAILY).
IsDailyOrLower(freq) == freq \in {"DAILY", "WEEKLY", "MONTHLY", "QUARTERLY", "YEARLY"}

\* The minutes of one bar of an intraday frequency.
MinutesOf(freq) ==
    CASE freq = "MIN_1"  -> 1
      [] freq = "MIN_5"  -> 5
      [] freq = "MIN_10" -> 10
      [] freq = "MIN_15" -> 15
      [] freq = "MIN_30" -> 30
      [] OTHER           -> 60

\* The beginning of the bar of the intraday frequency that holds dt.
BarStart(dt, freq) == dt - (dt % (MinutesOf(freq) * SecondsPerMinute))

\* No datetime was given (None).
NoDate == -1

\* Python values whose type the code inspects.
Bare(type, v) == [py |-> type, v |-> v, items |-> <<>>]
PyList(items) == [py |-> "list", v |-> "", items |-> items]


---------------------------------------------------------------------------
(* pandas frames: rows in order, each an index label and a cell per        *)
(* column; the column list is kept apart so an empty frame has columns.    *)

DataFrame(columns, rows) == [py |-> "DataFrame", columns |-> columns, rows |-> rows]
Row(idx, data) == [idx |-> idx, data |-> data]

EmptyFrame == DataFrame(<<>>, <<>>)

\* df.reset_index(): the old index becomes the first column, 'index', and
\* the rows are numbered again from 0.
reset_index(f) ==
    DataFrame(<<"index">> \o f.columns,
              [k \in DOMAIN f.rows |->
                  Row(k - 1,
                      [c \in Range(f.columns) \cup {"index"} |->
                          IF c = "index" THEN f.rows[k].idx ELSE f.rows[k].data[c]])])

\* df.index = pd.to_datetime(df[col]): every row is labelled by its cell in col.
set_index_from(f, col) ==
    DataFrame(f.columns,
              [k \in DOMAIN f.rows |-> Row(f.rows[k].data[col], f.rows[k].data)])

\* df.index.duplicated(keep='first')[k]: an earlier row carries the same label.
duplicated_keep_first(f, k) ==
    \E j \in 1..(k - 1) : f.rows[j].idx = f.rows[k].idx

\* df.index.duplicated(keep='last')[k]: a later row carries the same label.
duplicated_keep_last(f, k) ==
    \E j \in (k + 1)..Len(f.rows) : f.rows[j].idx = f.rows[k].idx

RECURSIVE FilterRows(_, _, _)
FilterRows(rows, keep, k) ==
    IF k > Len(rows) THEN <<>>
    ELSE (IF keep[k] THEN <<rows[k]>> ELSE <<>>) \o FilterRows(rows, keep, k + 1)

\* df[mask]: the rows whose mask is true, in order.
boolean_mask(f, mask) == DataFrame(f.columns, FilterRows(f.rows, mask, 1))

\* The frame restricted to the columns in keep, column order kept.
select_columns(f, keep) ==
    LET cols == SelectSeq(f.columns, LAMBDA c : c \in keep)
    IN  DataFrame(cols,
                  [k \in DOMAIN f.rows |->
                      Row(f.rows[k].idx, [c \in Range(cols) |-> f.rows[k].data[c]])])

\* df.drop(col, axis=1)
drop_column(f, col) == select_columns(f, Range(f.columns) \ {col})

\* df.loc[:, df.columns.isin(fields)]
loc_columns_isin(f, fields) == select_columns(f, Range(fields))

\* pd.concat(objs, axis): objs must be a sequence of frames; a frame passed
\* in its place is refused with TypeError.  The axis is 0 in every use here.
pd_concat(objs, axis) ==
    IF objs.py # "list"
    THEN [raised |-> "TypeError", value |-> EmptyFrame]
    ELSE LET RECURSIVE Cat(_)
             Cat(k) == IF k > Len(objs.items) THEN <<>>
                       ELSE objs.items[k].rows \o Cat(k + 1)
             renumbered == Cat(1)
         IN  [raised |-> "None",
              value |-> DataFrame(IF Len(objs.items) = 0 THEN <<>> ELSE objs.items[1].columns,
                                  renumbered)]

---------------------------------------------------------------------------
(* The source: the quote server behind request_history_kline, with data   *)
(* shaped like the unit test's mock: AAPL has open, close and volume and   *)
(* one bar a day; MSFT has no open, no bar on day 1, and lists its bar of  *)
(* day 2 twice, the second copy with other values.                         *)

SourceColumns(t) ==
    IF t = "AAPL" THEN <<"time_key", "open", "close", "volume">>
    ELSE <<"time_key", "close", "volume">>

\* The cell of column c in the occ-th bar of ticker t for a day.
SourceValue(t, c, day, occ) ==
    (IF t = "AAPL"
     THEN (CASE c = "open" -> 140 [] c = "close" -> 150 [] OTHER -> 1000)
     ELSE (CASE c = "close" -> 300 [] OTHER -> 2000))
    + day + 500 * (occ - 1)

\* The bars the server holds for t, in the order it lists them:
\* <<day, occurrence>>.
RECURSIVE ArchiveBars(_, _)
ArchiveBars(t, day) ==
    IF day > MaxDay THEN <<>>
    ELSE (CASE t = "MSFT" /\ day = 1 -> <<>>
            [] t = "MSFT" /\ day = 2 -> << <<day, 1>>, <<day, 2>> >>
            [] OTHER                 -> << <<day, 1>> >>)
         \o ArchiveBars(t, day + 1)

\* start / end arrive as '%Y-%m-%d' strings: the bars of the days
\* start..end, both whole days.
BarsInWindow(t, start_str, end_str) ==
    SelectSeq(ArchiveBars(t, 1), LAMBDA b : start_str <= b[1] /\ b[1] <= end_str)

\* The hours at which the server holds an intraday bar on every day.
IntradayBarHours == <<10, 15>>

\* The bars of the kind ktype the server holds for t on the days
\* start..end, each <<day, occurrence, hour>>: the daily bars at midnight,
\* the intraday bars of every day, and for the kinds above a day the one
\* bar of the period that begins on day 1.
BarsOfKind(t, start_str, end_str, ktype) ==
    LET RECURSIVE Intraday(_)
        Intraday(day) ==
            IF day > end_str THEN <<>>
            ELSE [k \in DOMAIN IntradayBarHours |-> <<day, 1, IntradayBarHours[k]>>]
                 \o Intraday(day + 1)
        daily == BarsInWindow(t, start_str, end_str)
    IN  CASE ktype = DAILY -> [k \in DOMAIN daily |-> <<daily[k][1], daily[k][2], 0>>]
          [] IsDailyOrLower(ktype) -> IF start_str <= 1 /\ 1 <= end_str
                                      THEN << <<1, 1, 0>> >> ELSE <<>>
          [] OTHER -> IF start_str > end_str THEN <<>> ELSE Intraday(start_str)

NoPageKey == 0

\* The answer to a successful request for page `key` (NoPageKey: the first
\* page): the page's frame and the key of the next page, NoPageKey when
\* this page is the last.
SourcePage(t, start_str, end_str, ktype, key) ==
    LET bars  == BarsOfKind(t, start_str, end_str, ktype)
        page  == IF key = NoPageKey THEN 1 ELSE key
        first == (page - 1) * PageSize + 1
        last  == Min(page * PageSize, Len(bars))
        shown == SubSeq(bars, first, last)
    IN  [data |-> DataFrame(SourceColumns(t),
                    [k \in DOMAIN shown |->
                        Row(k - 1,
                            [c \in Range(SourceColumns(t)) |->
                                IF c = "time_key"
                                THEN DateTime(shown[k][1], shown[k][3], 0, 0)
                                ELSE SourceValue(t, c, shown[k][1], shown[k][2])
                                         + 10 * shown[k][3]])]),
         page_req_key |-> IF last < Len(bars) THEN page + 1 ELSE NoPageKey]

---------------------------------------------------------------------------
(* Helpers of the framework that get_history calls.                        *)

\* convert_to_list(value, type_of_single_value) -> (list, was_single)
convert_to_list(value, type_of_single_value) ==
    IF value.py = type_of_single_value
    THEN [list |-> <<value.v>>, single |-> TRUE]
    ELSE [list |-> value.items, single |-> FALSE]

\* DataProvider._adjust_start_date: the beginning of the day for daily and
\* lower frequencies; an intraday start is left as it is.
adjust_start_date(start_date, freq) ==
    IF IsDailyOrLower(freq) THEN DayOf(start_date) * SecondsPerDay ELSE start_date

\* DataProvider._got_single_date: both ends on one bar, which is one
\* calendar day for daily and lower frequencies.
got_single_date_of(start_date, end_date, freq) ==
    IF IsDailyOrLower(freq) THEN DayOf(start_date) = DayOf(end_date)
    ELSE BarStart(start_date, freq) = BarStart(end_date, freq)

\* The latest market close that has been reached at current_time.
LastMarketClose(current_time) ==
    IF current_time >= MarketCloseTrigger(DayOf(current_time))
    THEN MarketCloseTrigger(DayOf(current_time))
    ELSE MarketCloseTrigger(DayOf(current_time) - 1)

\* DataProvider.get_end_date_without_look_ahead: the end, or the latest
\* boundary that is complete at the current time when that is earlier: the
\* last market close for daily and lower frequencies, the end of the last
\* completed bar for the intraday ones.
get_end_date_without_look_ahead(end_date, freq, current_time) ==
    IF IsDailyOrLower(freq)
    THEN Min(end_date, LastMarketClose(WithSecondZero(current_time)))
    ELSE Min(end_date, BarStart(WithSecondZero(current_time), freq))

---------------------------------------------------------------------------
(* The labelled cube (QFDataArray) and its squeezed forms.                 *)
(* A cell is addressed by positions <<date, ticker, field>>, so an axis    *)
(* may carry the same label twice.                                         *)

AxisNames == <<"dates", "tickers", "fields">>

CubeCells(dates, tickers, fields) ==
    (DOMAIN dates) \X (DOMAIN tickers) \X (DOMAIN fields)

Cube(dates, tickers, fields, val) ==
    [dates |-> dates, tickers |-> tickers, fields |-> fields, val |-> val]

\* The cell of frame f at index label d and column c, NaN when f has none.
FrameCell(f, d, c) ==
    IF c \in Range(f.columns) /\ \E k \in DOMAIN f.rows : f.rows[k].idx = d
    THEN f.rows[CHOOSE k \in DOMAIN f.rows : f.rows[k].idx = d].data[c]
    ELSE NaN

\* A dict as Python keeps it: the keys in insertion order, and the values.
EmptyDict == [keys |-> <<>>, frames |-> [t \in {} |-> EmptyFrame]]

DictSet(d, key, frame) ==
    [keys   |-> IF key \in Range(d.keys) THEN d.keys ELSE Append(d.keys, key),
     frames |-> [t \in Range(d.keys) \cup {key} |->
                    IF t = key THEN frame ELSE d.frames[t]]]

\* helpers.tickers_dict_to_data_array: the frames of the dict side by side,
\* over the union of their dates, for the given tickers and fields.
tickers_dict_to_data_array(tickers_data_dict, requested_tickers, requested_fields) ==
    LET all_dates == UNION {{tickers_data_dict.frames[t].rows[k].idx :
                                k \in DOMAIN tickers_data_dict.frames[t].rows} :
                            t \in Range(tickers_data_dict.keys)}
        dates == SortedSeq(all_dates)
    IN  Cube(dates, requested_tickers, requested_fields,
             [x \in CubeCells(dates, requested_tickers, requested_fields) |->
                 IF requested_tickers[x[2]] \in Range(tickers_data_dict.keys)
                 THEN FrameCell(tickers_data_dict.frames[requested_tickers[x[2]]],
                                dates[x[1]], requested_fields[x[3]])
                 ELSE NaN])

\* QFDataArray.reindex(tickers=..., fields=...): the cells looked up by
\* label; a label the cube does not have gives NaN.
reindex(cube, tickers, fields) ==
    Cube(cube.dates, tickers, fields,
         [x \in CubeCells(cube.dates, tickers, fields) |->
             LET ot == IndexOf(cube.tickers, tickers[x[2]])
                 of == IndexOf(cube.fields, fields[x[3]])
             IN  IF ot = 0 \/ of = 0 THEN NaN ELSE cube.val[<<x[1], ot, of>>]])


\* The structure get_history hands back: its Python type, the axes it
\* still has, their labels, and its cells by position along those axes.
Container(axes, labels, val) ==
    [py     |-> CASE Len(axes) = 0 -> "float"
                  [] Len(axes) = 1 -> "QFSeries"
                  [] Len(axes) = 2 -> "QFDataFrame"
                  [] OTHER         -> "QFDataArray",
     axes   |-> axes,
     labels |-> labels,
     val    |-> val]

\* What stands for a raised exception where a container is expected.
Raised(name) ==
    [py |-> name, axes |-> <<>>, labels |-> [a \in Range(AxisNames) |-> <<>>],
     val |-> <<>>]

\* helpers.squeeze_data_array: the axes in dims are removed.  A removed axis
\* is read at its only position and reads NaN when it has none; an axis
\* with several positions cannot be removed (xarray's squeeze refuses it).
squeeze_data_array(cube, dims) ==
    LET axes  == SelectSeq(AxisNames, LAMBDA a : a \notin dims)
        size  == [a \in Range(AxisNames) |-> Len(cube[a])]
        shape == [k \in DOMAIN axes |-> size[axes[k]]]
        top   == IF Len(axes) = 0 THEN 0
                 ELSE CHOOSE m \in {shape[k] : k \in DOMAIN axes} :
                          \A k \in DOMAIN axes : shape[k] <= m
    IN  IF \E a \in dims : size[a] > 1
        THEN Raised("ValueError")
        ELSE Container(axes,
                 [a \in Range(AxisNames) |-> IF a \in dims THEN <<>> ELSE cube[a]],
                 [x \in {y \in [DOMAIN axes -> 1..top] :
                            \A k \in DOMAIN axes : y[k] <= shape[k]} |->
                     IF \E a \in dims : size[a] = 0
                     THEN NaN
                     ELSE cube.val[<<IF "dates" \in dims THEN 1
                                     ELSE x[IndexOf(axes, "dates")],
                                     IF "tickers" \in dims THEN 1
                                     ELSE x[IndexOf(axes, "tickers")],
                                     IF "fields" \in dims THEN 1
                                     ELSE x[IndexOf(axes, "fields")]>>]])

\* helpers.normalize_data_array: the cube in the order of the requested
\* tickers and fields, then squeezed along the axes flagged single.
normalize_data_array(data_array, tickers, fields, got_single_date, got_single_ticker, got_single_field) ==
    squeeze_data_array(reindex(data_array, tickers, fields),
                       (IF got_single_date THEN {"dates"} ELSE {})
                       \cup (IF got_single_ticker THEN {"tickers"} ELSE {})
                       \cup (IF got_single_field THEN {"fields"} ELSE {}))

NoResult == Raised("None")

\* No query has been answered.
NoAnswer == [call |-> "none"]

---------------------------------------------------------------------------
(* FutuDataProvider: the pieces of get_history.                            *)

\* The mutant of frequency_to_period: a frequency outside the mapping is
\* passed on as it is.
frequency_to_period_PassThrough(freq) ==
    [raised |-> "None", value |-> freq]

\* _frequency_to_period (192-210)
frequency_to_period(freq) ==
    IF freq \in {"MIN_1", "MIN_5", "MIN_15", "MIN_30", "MIN_60",
                 "DAILY", "WEEKLY", "MONTHLY", "QUARTERLY"}
    THEN [raised |-> "None", value |-> freq]
    ELSE [raised |-> "ValueError", value |-> ""]

\* The members of the PriceField enum, written as Python prints them, and
\* price_field_to_str_map (58-65).
PriceFields ==
    {"PriceField.Open", "PriceField.High", "PriceField.Low", "PriceField.Close",
     "PriceField.Volume"}

price_field_to_str_map(field) ==
    CASE field = "PriceField.Open"   -> "open"
      [] field = "PriceField.High"   -> "high"
      [] field = "PriceField.Low"    -> "low"
      [] field = "PriceField.Close"  -> "close"
      [] field = "PriceField.Volume" -> "volume"

\* fields_to_futu_map (68-74): its keys are the five strs.
fields_to_futu_map(field) ==
    CASE field = "open"   -> "KL_FIELD.OPEN"
      [] field = "high"   -> "KL_FIELD.HIGH"
      [] field = "low"    -> "KL_FIELD.LOW"
      [] field = "close"  -> "KL_FIELD.CLOSE"
      [] field = "volume" -> "KL_FIELD.TRADE_VAL"

\* A resolution that looks an enum member up under its str name.
field_to_futu_field_ByName(field) ==
    LET name == IF field \in PriceFields THEN price_field_to_str_map(field) ELSE field
    IN  IF name \in {"open", "high", "low", "close", "volume"}
        THEN [raised |-> "None", value |-> fields_to_futu_map(name)]
        ELSE [raised |-> "TypeError", value |-> ""]

\* _field_to_futu_field (67-88): a PriceField is looked up in the map as it
\* is (76-82), where no key is a PriceField; a str is looked up at 83-86.
field_to_futu_field(field) ==
    IF field \in PriceFields
    THEN [raised |-> "ValueError", value |-> ""]
    ELSE IF field \in {"open", "high", "low", "close", "volume"}
    THEN [raised |-> "None", value |-> fields_to_futu_map(field)]
    ELSE [raised |-> "TypeError", value |-> ""]

\* lines 129-132
OriginalEndDate(end_date, current_time, freq) ==
    LET e == WithSecondZero(IF end_date = NoDate THEN current_time ELSE end_date)
    IN  IF IsDailyOrLower(freq) THEN WithHourMinute(e, 23, 59) ELSE e

\* The mutant of EffectiveEndDate: the look-ahead clamp is not applied.
EffectiveEndDate_NoClamp(original_end_date, bias, freq, current_time) ==
    original_end_date

\* The mutant of EffectiveEndDate: the clamp is applied whatever the flag.
EffectiveEndDate_AlwaysClamped(original_end_date, bias, freq, current_time) ==
    get_end_date_without_look_ahead(original_end_date, freq, current_time)

\* lines 134-135
EffectiveEndDate(original_end_date, bias, freq, current_time) ==
    IF bias THEN original_end_date
    ELSE get_end_date_without_look_ahead(original_end_date, freq, current_time)

\* The mutant of NormalizeArgs: the keys of the dict stand for the tickers.
NormalizeArgs_DictKeys(l, dict_keys) ==
    [tickers |-> dict_keys, fields |-> l.fields,
     got_single_date |-> l.got_single_date,
     got_single_ticker |-> l.got_single_ticker,
     got_single_field |-> l.got_single_field]

\* The mutant of NormalizeArgs: the ticker and field flags change places.
NormalizeArgs_FlagsSwapped(l, dict_keys) ==
    [tickers |-> l.tickers, fields |-> l.fields,
     got_single_date |-> l.got_single_date,
     got_single_ticker |-> l.got_single_field,
     got_single_field |-> l.got_single_ticker]

\* lines 185-187: what get_history passes to normalize_data_array.
NormalizeArgs(l, dict_keys) ==
    [tickers |-> l.tickers, fields |-> l.fields,
     got_single_date |-> l.got_single_date,
     got_single_ticker |-> l.got_single_ticker,
     got_single_field |-> l.got_single_field]

\* The mutant of ConvertTickers: single when the list has one element.
ConvertTickers_ByLength(t_arg) ==
    LET c == convert_to_list(t_arg, "FutuTicker")
    IN  [list |-> c.list, single |-> Len(c.list) = 1]

\* line 139
ConvertTickers(t_arg) == convert_to_list(t_arg, "FutuTicker")

\* The mutant of ConvertFields: single when the list has one element.
ConvertFields_ByLength(f_arg) ==
    LET c == convert_to_list(f_arg, "str")
    IN  [list |-> c.list, single |-> Len(c.list) = 1]

\* line 140
ConvertFields(f_arg) == convert_to_list(f_arg, "str")

\* The mutant of GotSingleDate: the flag is taken from the clamped end.
GotSingleDate_ClampedEnd(start_date, original_end_date, end_date, freq) ==
    got_single_date_of(start_date, end_date, freq)

\* line 137: the flag is taken from the end date as requested, not from
\* the end date the look-ahead clamp leaves.
GotSingleDate(start_date, original_end_date, end_date, freq) ==
    got_single_date_of(start_date, original_end_date, freq)

\* lines 129-140: the locals get_history computes before it connects.
Locals(t_arg, f_arg, start_date, end_date, bias, freq, current_time) ==
    LET original_end_date == OriginalEndDate(end_date, current_time, freq)
        adjusted_start    == adjust_start_date(start_date, freq)
        t == ConvertTickers(t_arg)
        f == ConvertFields(f_arg)
    IN  [original_end_date |-> original_end_date,
         end_date          |-> EffectiveEndDate(original_end_date, bias, freq, current_time),
         start_date        |-> adjusted_start,
         got_single_date   |-> GotSingleDate(adjusted_start, original_end_date,
                                  EffectiveEndDate(original_end_date, bias, freq, current_time),
                                  freq),
         tickers           |-> t.list,
         got_single_ticker |-> t.single,
         fields            |-> f.list,
         got_single_field  |-> f.single]

NoLocals ==
    [original_end_date |-> 0, end_date |-> 0, start_date |-> 0,
     got_single_date |-> FALSE, tickers |-> <<>>, got_single_ticker |-> FALSE,
     fields |-> <<>>, got_single_field |-> FALSE]

\* The mutant of Deduplicated: the last of the rows sharing a label is kept.
Deduplicated_KeepLast(f) ==
    boolean_mask(f, [k \in DOMAIN f.rows |-> ~duplicated_keep_last(f, k)])

\* df[~df.index.duplicated(keep='first')] (futu 167, qlib 197)
Deduplicated(f) ==
    boolean_mask(f, [k \in DOMAIN f.rows |-> ~duplicated_keep_first(f, k)])

\* lines 165-168: the frame indexed by time_key, one row per time_key.
FutuIndexed(f) ==
    drop_column(Deduplicated(set_index_from(reset_index(f), "time_key")), "time_key")

\* lines 170-177: the columns kept, and the fields recorded as available.
FutuProjected(f, fields) ==
    IF fields # <<>>
    THEN [df |-> loc_columns_isin(f, fields), available_fields |-> fields]
    ELSE [df |-> f, available_fields |-> f.columns]

---------------------------------------------------------------------------
(* The process a provider is constructed in: whether the futu and qlib     *)
(* libraries could be imported (futu 31-36, qlib 34-40), the path argument *)
(* of the QLib constructor ("" when it is left out), the QLIB_DIR variable *)
(* of the environment and whether the default directory of line 130 is on  *)
(* the disk.  "data" names a directory that exists, "missing" one that     *)
(* does not, "default" the directory ~/.qlib/qlib_data/<region>_data.      *)

Env(futu, qlib, path, qlib_dir, default_exists) ==
    [is_futu_installed |-> futu, is_qlib_installed |-> qlib, path |-> path,
     QLIB_DIR |-> qlib_dir, default_exists |-> default_exists]

\* Both libraries installed and the archive in place.
UsableEnv == Env(TRUE, TRUE, "data", "unset", FALSE)

\* line 130: path if path != '' else os.getenv('QLIB_DIR', default)
ResolvedPath(e) ==
    IF e.path # "" THEN e.path
    ELSE IF e.QLIB_DIR # "unset" THEN e.QLIB_DIR ELSE "default"

\* A disk on which every path exists.
PathExists_Always(e, path) == TRUE

\* line 136: Path(path).exists()
PathExists(e, path) ==
    path = "data" \/ (path = "default" /\ e.default_exists)

---------------------------------------------------------------------------
(* The requests the model draws.                                           *)

\* Sequences over S of length 1..n.
SeqsUpTo(S, n) == UNION {[1..k -> S] : k \in 1..n}

TickerArgs ==
    {Bare("FutuTicker", t) : t \in Tickers}
    \cup {PyList(l) : l \in SeqsUpTo(Tickers, MaxTickers)}

FieldArgs ==
    {Bare("str", "close"), Bare("str", "open"), Bare("str", "turnover"),
     PyList(<<"close">>), PyList(<<"close", "open">>), PyList(<<"open", "close">>),
     PyList(<<"close", "turnover">>)}

Days == 1..MaxDay

\* Times of day of the timer: midnight, before the close, the close, after.
NowTimes == {DateTime(0, 0, 0, 0), DateTime(0, 14, 59, 0),
             DateTime(0, 15, 0, 0), DateTime(0, 16, 0, 0)}

---------------------------------------------------------------------------
(* get_history, statement by statement.                                    *)

Init ==
    /\ pc = "idle"
    /\ now = 0
    /\ tickers_arg = PyList(<<>>)
    /\ fields_arg = PyList(<<>>)
    /\ start_arg = 0
    /\ end_arg = 0
    /\ look_ahead_bias = FALSE
    /\ frequency = DAILY
    /\ loc = NoLocals
    /\ quote_ctx = "none"
    /\ i = 0
    /\ df = EmptyFrame
    /\ page_req_key = NoPageKey
    /\ tickers_df_dict = EmptyDict
    /\ available_fields = <<>>
    /\ qf_data_array = Cube(<<>>, <<>>, <<>>, <<>>)
    /\ result = NoResult
    /\ exc = "None"
    /\ requests = <<>>
    /\ pages = <<>>
    /\ answer = NoAnswer
    /\ env = UsableEnv

\* 90-143 for one request at one time of the timer: the arguments are
\* taken, the locals computed and the frequency and the fields checked.
CallWith(t_arg, f_arg, start_date, end_date, bias, freq, current_time) ==
    /\ tickers_arg' = t_arg
    /\ fields_arg' = f_arg
    /\ start_arg' = start_date
    /\ end_arg' = end_date
    /\ look_ahead_bias' = bias
    /\ now' = current_time
    /\ frequency' = freq
    /\ env' = env
    /\ loc' = Locals(tickers_arg', fields_arg', start_arg', end_arg',
                     look_ahead_bias', frequency', now')
    /\ LET ktype == frequency_to_period(frequency')
           bad   == {k \in DOMAIN loc'.fields :
                        field_to_futu_field(loc'.fields[k]).raised # "None"}
       IN  IF ktype.raised # "None"
           THEN pc' = "raised" /\ exc' = ktype.raised
           ELSE IF bad # {}
           THEN /\ pc' = "raised"
                /\ exc' = field_to_futu_field(
                              loc'.fields[CHOOSE k \in bad : \A j \in bad : k <= j]).raised
           ELSE pc' = "open" /\ exc' = "None"
    /\ UNCHANGED <<answer, quote_ctx, i, df, page_req_key, tickers_df_dict,
                   available_fields, qf_data_array, result, requests, pages>>

\* 90-143: the call and everything before the connection is opened, for
\* daily requests with whole days as start and end.
Call ==
    /\ pc = "idle"
    /\ \E t_arg \in TickerArgs, f_arg \in FieldArgs, s \in Days, e \in Days,
          bias \in BOOLEAN, nd \in Days, nt \in NowTimes :
          /\ s <= e
          /\ CallWith(t_arg, f_arg, DateTime(s, 0, 0, 0), DateTime(e, 0, 0, 0),
                      bias, DAILY, DateTime(nd, 0, 0, 0) + nt)

\* 145-148
OpenQuoteContext ==
    /\ pc = "open"
    /\ tickers_df_dict' = EmptyDict
    /\ available_fields' = <<>>
    /\ quote_ctx' = "open"
    /\ i' = 1
    /\ pc' = "for"
    /\ UNCHANGED <<answer, request_vars, loc, df, page_req_key, qf_data_array, result,
                   exc, requests, pages>>

\* The request of lines 152 and 158 as the server sees it.
Request(ticker, key, ret) ==
    [ticker |-> ticker, start |-> StrftimeYmd(loc.start_date),
     end |-> StrftimeYmd(loc.end_date), ktype |-> frequency_to_period(frequency).value,
     page_req_key |-> key, ret |-> ret]

\* Where the while loop of line 157 goes with this page key.
AfterPage(key) == IF key # NoPageKey THEN "while" ELSE "process"

\* 150-155: the first page of the next ticker.
RequestFirstPage ==
    /\ pc = "for"
    /\ i <= Len(loc.tickers)
    /\ \E ret \in {"RET_OK", "RET_ERROR"} :
          LET req  == Request(loc.tickers[i], NoPageKey, ret)
              resp == SourcePage(req.ticker, req.start, req.end, req.ktype, NoPageKey)
          IN  /\ requests' = Append(requests, req)
              /\ IF ret # "RET_OK"
                 THEN /\ i' = i + 1
                      /\ pc' = "for"
                      /\ df' = EmptyFrame
                      /\ page_req_key' = NoPageKey
                      /\ pages' = <<>>
                 ELSE /\ i' = i
                      /\ df' = resp.data
                      /\ page_req_key' = resp.page_req_key
                      /\ pages' = <<resp.data>>
                      /\ pc' = AfterPage(resp.page_req_key)
    /\ UNCHANGED <<answer, request_vars, loc, quote_ctx, tickers_df_dict,
                   available_fields, qf_data_array, result, exc>>

\* 157-163: one more page of the ticker.
RequestNextPage ==
    /\ pc = "while"
    /\ \E ret \in {"RET_OK", "RET_ERROR"} :
          LET req  == Request(loc.tickers[i], page_req_key, ret)
              resp == SourcePage(req.ticker, req.start, req.end, req.ktype, page_req_key)
              cat  == pd_concat(df, resp.data)
          IN  /\ requests' = Append(requests, req)
              /\ IF ret = "RET_OK"
                 THEN /\ pages' = Append(pages, resp.data)
                      /\ page_req_key' = resp.page_req_key
                      /\ IF cat.raised # "None"
                         THEN pc' = "raised" /\ exc' = cat.raised /\ df' = df
                         ELSE pc' = AfterPage(resp.page_req_key) /\ exc' = exc
                              /\ df' = cat.value
                 ELSE /\ pages' = pages
                      /\ page_req_key' = NoPageKey
                      /\ pc' = "process"
                      /\ exc' = exc
                      /\ df' = df
    /\ UNCHANGED <<answer, request_vars, loc, quote_ctx, i, tickers_df_dict,
                   available_fields, qf_data_array, result>>

\* 165-179: the ticker's frame is cleaned and stored.
ProcessFrame ==
    /\ pc = "process"
    /\ LET p == FutuProjected(FutuIndexed(df), loc.fields)
       IN  /\ df' = p.df
           /\ available_fields' = p.available_fields
           /\ tickers_df_dict' = DictSet(tickers_df_dict, loc.tickers[i], p.df)
    /\ i' = i + 1
    /\ pc' = "for"
    /\ UNCHANGED <<answer, request_vars, loc, quote_ctx, page_req_key, qf_data_array,
                   result, exc, requests, pages>>

\* A close() that leaves the connection as it was.
close_KeepOpen(ctx) == ctx

\* quote_ctx.close(): what becomes of the connection.
close(ctx) == "closed"

\* 181: the loop is over, the connection is closed.
CloseQuoteContext ==
    /\ pc = "for"
    /\ i > Len(loc.tickers)
    /\ quote_ctx' = close(quote_ctx)
    /\ pc' = "assemble"
    /\ UNCHANGED <<answer, request_vars, loc, i, df, page_req_key, tickers_df_dict,
                   available_fields, qf_data_array, result, exc, requests, pages>>

\* 183-187: the cube is assembled, normalized and returned.
Return ==
    /\ pc = "assemble"
    /\ qf_data_array' = tickers_dict_to_data_array(tickers_df_dict,
                            tickers_df_dict.keys, available_fields)
    /\ LET args == NormalizeArgs(loc, tickers_df_dict.keys)
           r    == normalize_data_array(qf_data_array', args.tickers, args.fields,
                       args.got_single_date, args.got_single_ticker,
                       args.got_single_field)
       IN  IF r.py = "ValueError"
           THEN pc' = "raised" /\ exc' = r.py /\ result' = result
           ELSE pc' = "done" /\ exc' = exc /\ result' = r
    /\ UNCHANGED <<answer, request_vars, loc, quote_ctx, i, df, page_req_key,
                   tickers_df_dict, available_fields, requests, pages>>

Next ==
    \/ Call
    \/ OpenQuoteContext
    \/ RequestFirstPage
    \/ RequestNextPage
    \/ ProcessFrame
    \/ CloseQuoteContext
    \/ Return

Spec == Init /\ [][Next]_vars

---------------------------------------------------------------------------
(* QLibDataProvider._get_data: the per-ticker step _process_df (195-219).  *)
(* Its frame is the slice of one instrument out of D.features' answer,     *)
(* after reset_index: the columns instrument and datetime, then the data.  *)

\* df.loc[start_time:end_time, ...] on a time-ordered index: the rows
\* labelled within the two bounds, both included.
loc_rows_between(f, start_time, end_time) ==
    boolean_mask(f, [k \in DOMAIN f.rows |->
                        start_time <= f.rows[k].idx /\ f.rows[k].idx <= end_time])

\* An assignment that creates the column without copying anything into it.
assign_column_Empty(f, value, key) ==
    DataFrame(IF value \in Range(f.columns) THEN f.columns
              ELSE Append(f.columns, value),
              [k \in DOMAIN f.rows |->
                  Row(f.rows[k].idx,
                      [c \in Range(f.columns) \cup {value} |->
                          IF c = value THEN NaN ELSE f.rows[k].data[c]])])

\* df[value] = df[key]: the column value is set to a copy of column key;
\* a new column goes last.
assign_column(f, value, key) ==
    DataFrame(IF value \in Range(f.columns) THEN f.columns
              ELSE Append(f.columns, value),
              [k \in DOMAIN f.rows |->
                  Row(f.rows[k].idx,
                      [c \in Range(f.columns) \cup {value} |->
                          IF c = value THEN f.rows[k].data[key]
                          ELSE f.rows[k].data[c]])])

RECURSIVE AssignPriceFields(_, _)
\* lines 212-214: every (key, value) of field_to_price_field_dict in turn.
AssignPriceFields(f, items) ==
    IF items = <<>> THEN f
    ELSE AssignPriceFields(assign_column(f, Head(items)[2], Head(items)[1]),
                           Tail(items))

\* available_fields.update(columns): the names not yet in the set are added.
set_update(known, columns) ==
    known \o SelectSeq(columns, LAMBDA c : c \notin Range(known))

\* lines 195-198: the frame indexed by datetime, one row per datetime.
QLibIndexed(f) ==
    drop_column(Deduplicated(set_index_from(f, "datetime")), "datetime")

\* lines 195-219: _process_df(df, ticker_str) with the enclosing locals l.
\* The result names the frame, the fields known and the dict afterwards.
process_df(f, l, known, dict) ==
    LET indexed    == QLibIndexed(f)
        start_time == l.start_date
        end_time   == l.end_date
        window     == loc_rows_between(indexed, start_time, end_time)
        projected  == IF l.fields # <<>>
                      THEN loc_columns_isin(window, l.fields)
                      ELSE window
        priced     == AssignPriceFields(projected, l.field_to_price_field_dict)
    IN  [df |-> priced,
         available_fields |-> IF l.fields # <<>> THEN known
                              ELSE set_update(known, projected.columns),
         tickers_prices_dict |->
             IF l.ticker_str \in Range(l.tickers_str_mapping)
             THEN DictSet(dict, l.ticker_str, priced)
             ELSE dict]

\* One call of _process_df.
QLibProcessDf ==
    /\ pc = "qlib_process"
    /\ LET p == process_df(df, loc, available_fields, tickers_df_dict)
       IN  /\ df' = p.df
           /\ available_fields' = p.available_fields
           /\ tickers_df_dict' = p.tickers_prices_dict
    /\ pc' = "qlib_next"
    /\ UNCHANGED <<answer, request_vars, loc, quote_ctx, i, page_req_key, qf_data_array,
                   result, exc, requests, pages>>

---------------------------------------------------------------------------
(* The clean-up of one ticker's raw rows, for either provider, on raw rows *)
(* drawn freely: any timestamps up to MaxRawRows rows for Futu, whose       *)
(* clean-up does not depend on the order, and time-ordered rows within the *)
(* requested window for QLib, as D.features answers.                       *)

\* The value of a raw row: it tells the position of the row.
RawValue(k, stamp, column) ==
    IF column = "close" THEN 100 * k + DayOf(stamp) ELSE 1000 * k + DayOf(stamp)

\* A raw frame with the given timestamps in the given column.
RawFrame(stamp_column, lead, stamps) ==
    DataFrame(lead \o <<stamp_column, "close", "volume">>,
              [k \in DOMAIN stamps |->
                  Row(k - 1,
                      [c \in Range(lead) \cup {stamp_column, "close", "volume"} |->
                          IF c = stamp_column THEN stamps[k]
                          ELSE IF c \in Range(lead) THEN "AAPL"
                          ELSE RawValue(k, stamps[k], c)])])

\* The timestamp sequences of up to MaxRawRows rows over the days lo..hi.
StampSeqs(lo, hi) ==
    {[k \in DOMAIN q |-> DateTime(q[k], 0, 0, 0)] : q \in SeqsUpTo(lo..hi, MaxRawRows)}

IsTimeOrdered(stamps) ==
    \A k \in DOMAIN stamps : k > 1 => stamps[k - 1] <= stamps[k]

\* The locals of _get_data that _process_df reads.
QLibLocals(fields, start_date, end_date, price_fields, ticker_str) ==
    [fields |-> fields, start_date |-> start_date, end_date |-> end_date,
     field_to_price_field_dict |-> price_fields,
     tickers_str_mapping |-> <<ticker_str>>, ticker_str |-> ticker_str,
     tickers |-> <<ticker_str>>]

InitDedup ==
    /\ now = 0
    /\ tickers_arg = PyList(<<"AAPL">>)
    /\ \E f_arg \in {PyList(<<"close">>), PyList(<<"close", "volume">>)},
          s \in Days, e \in Days :
          /\ s <= e
          /\ fields_arg = f_arg
          /\ start_arg = DateTime(s, 0, 0, 0)
          /\ end_arg = DateTime(e, 0, 0, 0)
          /\ \/ /\ pc = "process"
                /\ s = 1 /\ e = MaxDay
                /\ loc = Locals(tickers_arg, f_arg, start_arg, end_arg, TRUE, DAILY, now)
                /\ quote_ctx = "open"
                /\ i = 1
                /\ \E stamps \in StampSeqs(s, e) :
                       df = RawFrame("time_key", <<>>, stamps)
             \/ /\ pc = "qlib_process"
                /\ \E pf \in {<<>>, <<<<"close", "PriceField.Close">>>>} :
                       loc = QLibLocals(f_arg.items, start_arg, end_arg, pf, "AAPL")
                /\ quote_ctx = "none"
                /\ i = 0
                /\ \E stamps \in StampSeqs(s, e) :
                       /\ IsTimeOrdered(stamps)
                       /\ df = RawFrame("datetime", <<"instrument">>, stamps)
    /\ look_ahead_bias = TRUE
    /\ frequency = DAILY
    /\ page_req_key = NoPageKey
    /\ tickers_df_dict = EmptyDict
    /\ available_fields = <<>>
    /\ qf_data_array = Cube(<<>>, <<>>, <<>>, <<>>)
    /\ result = NoResult
    /\ exc = "None"
    /\ requests = <<>>
    /\ pages = <<df>>
    /\ answer = NoAnswer
    /\ env = UsableEnv

NextDedup ==
    \/ ProcessFrame
    \/ QLibProcessDf

SpecDedup == InitDedup /\ [][NextDedup]_vars

---------------------------------------------------------------------------
(* The construction of the providers.  The QLib archive holds two stocks,  *)
(* SH600000 with a row on every day and SH600004 with rows from day 2 on,  *)
(* and the index CSI300 of the two; SZ000001 is a stock it has no rows of. *)

\* A ticker: what as_string() gives and its security_type.
QLibTicker(name, security_type) == [name |-> name, security_type |-> security_type]

QLibTickers ==
    {QLibTicker("SH600000", "STOCK"), QLibTicker("SH600004", "STOCK"),
     QLibTicker("SZ000001", "STOCK"), QLibTicker("CSI300", "INDEX"),
     QLibTicker("EURUSD", "FX")}

\* The instruments with rows, in the order the archive lists them.
ArchiveInstruments == <<"SH600000", "SH600004">>

\* D.list_instruments(D.instruments(market), as_list=True)
list_instruments(market) ==
    IF market = "CSI300" THEN <<"SH600000", "SH600004">> ELSE <<>>

\* The first day the archive has a row of the instrument.
FirstArchiveDay(instrument) == IF instrument = "SH600000" THEN 1 ELSE 2

\* The columns of D.features' answer after reset_index and the renaming of
\* lines 237-240.
FeatureColumns ==
    <<"instrument", "datetime", "open", "close", "high", "low", "volume">>

FeatureValue(instrument, column, day) ==
    (IF instrument = "SH600000" THEN 10 ELSE 20)
    + (CASE column = "open" -> 1 [] column = "close" -> 2 [] column = "high" -> 3
         [] column = "low" -> 0 [] OTHER -> 5) * 100
    + day

\* D.features(instruments, fields, start_time, end_time) followed by lines
\* 237-242: the rows of the requested instruments in the archive's order,
\* each instrument's rows in time order.
features(instruments, start_time, end_time) ==
    LET RECURSIVE RowsOf(_, _)
        RowsOf(instrument, day) ==
            IF day > MaxDay THEN <<>>
            ELSE (IF /\ FirstArchiveDay(instrument) <= day
                     /\ start_time <= DateTime(day, 0, 0, 0)
                     /\ DateTime(day, 0, 0, 0) <= end_time
                  THEN << <<instrument, day>> >> ELSE <<>>)
                 \o RowsOf(instrument, day + 1)
        RECURSIVE All(_)
        All(k) ==
            IF k > Len(ArchiveInstruments) THEN <<>>
            ELSE (IF ArchiveInstruments[k] \in Range(instruments)
                  THEN RowsOf(ArchiveInstruments[k], 1) ELSE <<>>)
                 \o All(k + 1)
        found == All(1)
    IN  DataFrame(FeatureColumns,
            [k \in DOMAIN found |->
                Row(k - 1,
                    [c \in Range(FeatureColumns) |->
                        CASE c = "instrument" -> found[k][1]
                          [] c = "datetime"   -> DateTime(found[k][2], 0, 0, 0)
                          [] OTHER -> FeatureValue(found[k][1], c, found[k][2])])])

\* A list left with its repetitions.
Unique_KeepAll(s) == s

RECURSIVE Unique(_)
\* list(dict.fromkeys(s)), Series.unique(): the first of each, in order.
Unique(s) ==
    IF s = <<>> THEN <<>>
    ELSE LET rest == Unique(SubSeq(s, 1, Len(s) - 1))
         IN  IF s[Len(s)] \in Range(rest) THEN rest ELSE Append(rest, s[Len(s)])

\* line 243: df['instrument'].dropna().unique().tolist()
AvailableTickers(f) ==
    Unique([k \in DOMAIN f.rows |-> f.rows[k].data["instrument"]])

\* line 245: df[df['instrument'] == ticker_str]
SliceOf(f, ticker_str) ==
    boolean_mask(f, [k \in DOMAIN f.rows |-> f.rows[k].data["instrument"] = ticker_str])

\* The frequencies _get_data knows a name of the archive for.
QLibFrequencies ==
    {"MIN_1", "MIN_5", "MIN_10", "MIN_15", "MIN_30", "MIN_60",
     "DAILY", "WEEKLY", "MONTHLY", "QUARTERLY", "YEARLY"}

\* lines 173-185: freq_to_qlib_freq
freq_to_qlib_freq(freq) ==
    CASE freq = "MIN_1"     -> "1min"
      [] freq = "MIN_5"     -> "5min"
      [] freq = "MIN_10"    -> "10min"
      [] freq = "MIN_15"    -> "15min"
      [] freq = "MIN_30"    -> "30min"
      [] freq = "MIN_60"    -> "60min"
      [] freq = "DAILY"     -> "day"
      [] freq = "WEEKLY"    -> "week"
      [] freq = "MONTHLY"   -> "month"
      [] freq = "QUARTERLY" -> "quarter"
      [] freq = "YEARLY"    -> "year"

RECURSIVE MapTickers_SkipOthers(_, _, _)
\* A mapping loop that passes over a ticker of another kind instead of
\* raising.
MapTickers_SkipOthers(tickers, k, acc) ==
    IF k > Len(tickers) THEN acc
    ELSE MapTickers_SkipOthers(tickers, k + 1,
             IF tickers[k].security_type = "STOCK"
             THEN [acc EXCEPT !.mapping = DictSet(@, tickers[k].name, tickers[k])]
             ELSE acc)

RECURSIVE MapTickers(_, _, _)
\* lines 221-230: the loop that fills tickers_str_mapping, from position k
\* on.  It names the exception raised, the mapping and the calls made for
\* the instruments of an index.
MapTickers(tickers, k, acc) ==
    IF k > Len(tickers) THEN acc
    ELSE CASE tickers[k].security_type = "STOCK" ->
                  MapTickers(tickers, k + 1,
                      [acc EXCEPT !.mapping = DictSet(@, tickers[k].name, tickers[k])])
           [] tickers[k].security_type = "INDEX" ->
                  LET members == list_instruments(tickers[k].name)
                      RECURSIVE Put(_, _)
                      Put(d, j) ==
                          IF j > Len(members) THEN d
                          ELSE Put(DictSet(d, members[j], QLibTicker(members[j], "STOCK")),
                                   j + 1)
                  IN  MapTickers(tickers, k + 1,
                          [acc EXCEPT !.mapping = Put(@, 1),
                                      !.calls = Append(@, [call |-> "list_instruments",
                                                           market |-> tickers[k].name,
                                                           freq |-> acc.freq])])
           [] OTHER -> [acc EXCEPT !.raised = "ValueError"]

\* warnings.warn(...) followed by exit(1): the diagnostic is emitted and
\* the process ends with status 1.
WarnAndExit ==
    /\ requests' = Append(requests, [call |-> "warn"])
    /\ pc' = "exited"
    /\ exc' = "SystemExit(1)"

\* FutuDataProvider.__init__ (50-56)
FutuConstruct ==
    /\ pc = "new"
    /\ IF ~env.is_futu_installed
       THEN WarnAndExit
       ELSE pc' = "idle" /\ exc' = exc /\ requests' = requests
    /\ UNCHANGED <<answer, request_vars, loc, quote_ctx, i, df, page_req_key,
                   tickers_df_dict, available_fields, qf_data_array, result, pages>>

\* The values of fields= the model draws: None, a str, a list.
QLibFieldArgs ==
    {Bare("NoneType", ""), Bare("str", "close"), PyList(<<"volume", "close">>)}

\* A value of tickers=: the one ticker of l itself, or the list l.
QLibTickerArg(l, single) ==
    IF single /\ Len(l) = 1 THEN Bare("Ticker", l[1]) ELSE PyList(l)

\* lines 144-145: if fields: fields, _ = convert_to_list(fields, str)
QLibFields(f_arg) ==
    IF f_arg.py = "NoneType" THEN <<>> ELSE convert_to_list(f_arg, "str").list

\* QLibDataProvider.__init__ up to the call of _get_data (113-152), with
\* frequency= drawn from freqs.
QLibInit(freqs) ==
    /\ IF \/ ~env.is_qlib_installed
          \/ ResolvedPath(env) = ""
          \/ ~PathExists(env, ResolvedPath(env))
       THEN /\ WarnAndExit
            /\ UNCHANGED <<request_vars, loc>>
       ELSE /\ frequency' \in freqs
            /\ \E l \in SeqsUpTo(QLibTickers, MaxTickers), single \in BOOLEAN,
                  f_arg \in QLibFieldArgs, s \in Days, e \in Days,
                  pf \in {<<>>, <<<<"close", "PriceField.Close">>>>} :
                  /\ s <= e
                  /\ tickers_arg' = QLibTickerArg(l, single)
                  /\ fields_arg' = f_arg
                  /\ start_arg' = DateTime(s, 0, 0, 0)
                  /\ end_arg' = DateTime(e, 0, 0, 0)
                  /\ loc' = [QLibLocals(QLibFields(f_arg), start_arg', end_arg', pf, "")
                                EXCEPT !.tickers = Unique(convert_to_list(tickers_arg', "Ticker").list),
                                       !.tickers_str_mapping = <<>>]
            /\ requests' = Append(requests, [call |-> "qlib.init"])
            /\ pc' = "qlib_map"
            /\ exc' = exc
            /\ UNCHANGED <<now, look_ahead_bias, env>>
    /\ UNCHANGED <<answer, quote_ctx, i, df, page_req_key, tickers_df_dict,
                   available_fields, qf_data_array, result, pages>>

\* QLibDataProvider(...) without frequency=: the default, Frequency.DAILY
\* (line 116).
QLibConstruct ==
    /\ pc = "new"
    /\ QLibInit({DAILY})

\* QLibDataProvider(..., frequency=f) for a frequency of the archive.
QLibConstructAt ==
    /\ pc = "new"
    /\ QLibInit(QLibFrequencies)

\* _get_data, lines 221-230: the tickers are mapped to instruments.
QLibMapTickers ==
    /\ pc = "qlib_map"
    /\ LET m == MapTickers(loc.tickers, 1,
                    [raised |-> "None", mapping |-> EmptyDict, calls |-> <<>>,
                     freq |-> freq_to_qlib_freq(frequency)])
       IN  /\ requests' = requests \o m.calls
           /\ IF m.raised # "None"
              THEN pc' = "raised" /\ exc' = m.raised /\ loc' = loc
              ELSE /\ pc' = "qlib_features"
                   /\ exc' = exc
                   /\ loc' = [loc EXCEPT !.tickers_str_mapping = m.mapping.keys]
    /\ UNCHANGED <<answer, request_vars, quote_ctx, i, df, page_req_key, tickers_df_dict,
                   available_fields, qf_data_array, result, pages>>

\* _get_data, lines 232-243: the features are fetched from the archive.
QLibFeatures ==
    /\ pc = "qlib_features"
    /\ LET response == features(loc.tickers_str_mapping, loc.start_date, loc.end_date)
       IN  /\ requests' = Append(requests,
                              [call |-> "features",
                               instruments |-> loc.tickers_str_mapping,
                               start_time |-> loc.start_date,
                               end_time |-> loc.end_date])
           /\ pages' = <<response>>
           /\ df' = response
    /\ i' = 0
    /\ tickers_df_dict' = EmptyDict
    /\ available_fields' = <<>>
    /\ pc' = "qlib_next"
    /\ UNCHANGED <<answer, request_vars, loc, quote_ctx, page_req_key, qf_data_array,
                   result, exc>>

\* _get_data, lines 244-245: the rows of the next instrument of the answer.
QLibSlice ==
    /\ pc = "qlib_next"
    /\ i < Len(AvailableTickers(pages[1]))
    /\ i' = i + 1
    /\ loc' = [loc EXCEPT !.ticker_str = AvailableTickers(pages[1])[i + 1]]
    /\ df' = SliceOf(pages[1], loc'.ticker_str)
    /\ pc' = "qlib_process"
    /\ UNCHANGED <<answer, request_vars, quote_ctx, page_req_key, tickers_df_dict,
                   available_fields, qf_data_array, result, exc, requests, pages>>

\* The fields of the cube: lines 252-258.
QLibAvailableFields(l, known) ==
    (IF l.fields # <<>> THEN l.fields ELSE known)
    \o [k \in DOMAIN l.field_to_price_field_dict |-> l.field_to_price_field_dict[k][2]]

\* A test for no data that never finds it missing.
NoDataFound_Never(dict) == FALSE

\* line 248: not tickers_prices_dict.values()
NoDataFound(dict) == dict.keys = <<>>

\* _get_data, lines 247-271, and the rest of __init__ (155-163): no data at
\* all is an ImportError; otherwise the cube of the tickers that have data
\* is built and the provider is constructed around it.
QLibFinish ==
    /\ pc = "qlib_next"
    /\ i >= Len(AvailableTickers(pages[1]))
    /\ IF NoDataFound(tickers_df_dict)
       THEN /\ pc' = "raised"
            /\ exc' = "ImportError"
            /\ UNCHANGED <<available_fields, qf_data_array, result>>
       ELSE LET real_tickers == tickers_df_dict.keys
                fields       == QLibAvailableFields(loc, available_fields)
            IN  /\ available_fields' = fields
                /\ qf_data_array' = tickers_dict_to_data_array(tickers_df_dict,
                                        real_tickers, fields)
                /\ result' = normalize_data_array(qf_data_array', real_tickers, fields,
                                                  FALSE, FALSE, FALSE)
                /\ pc' = "constructed"
                /\ exc' = exc
    /\ UNCHANGED <<answer, request_vars, loc, quote_ctx, i, df, page_req_key,
                   tickers_df_dict, requests, pages>>

\* Every process a provider may be constructed in.
InitConstruct ==
    /\ pc = "new"
    /\ env \in {Env(fu, ql, path, dir, def) :
                    fu \in BOOLEAN, ql \in BOOLEAN, path \in {"", "missing", "data"},
                    dir \in {"unset", "", "data"}, def \in BOOLEAN}
    /\ now = 0
    /\ tickers_arg = PyList(<<>>)
    /\ fields_arg = PyList(<<>>)
    /\ start_arg = 0
    /\ end_arg = 0
    /\ look_ahead_bias = FALSE
    /\ frequency = DAILY
    /\ loc = NoLocals
    /\ quote_ctx = "none"
    /\ i = 0
    /\ df = EmptyFrame
    /\ page_req_key = NoPageKey
    /\ tickers_df_dict = EmptyDict
    /\ available_fields = <<>>
    /\ qf_data_array = Cube(<<>>, <<>>, <<>>, <<>>)
    /\ result = NoResult
    /\ exc = "None"
    /\ requests = <<>>
    /\ pages = <<>>
    /\ answer = NoAnswer

NextConstruct ==
    \/ FutuConstruct
    \/ QLibConstruct
    \/ QLibMapTickers
    \/ QLibFeatures
    \/ QLibSlice
    \/ QLibProcessDf
    \/ QLibFinish

SpecConstruct == InitConstruct /\ [][NextConstruct]_vars

\* The construction of a QLibDataProvider at each frequency, in a process
\* where the archive is installed and on disk.
NextLoad ==
    \/ QLibConstructAt
    \/ QLibMapTickers
    \/ QLibFeatures
    \/ QLibSlice
    \/ QLibProcessDf
    \/ QLibFinish

InitLoad == InitConstruct /\ env = UsableEnv

SpecLoad == InitLoad /\ [][NextLoad]_vars

---------------------------------------------------------------------------
(* The queries a constructed QLibDataProvider answers.  get_history and    *)
(* get_price are inherited from PresetDataProvider: they read the cube the *)
(* constructor loaded and never go back to the archive.                    *)

\* The cube the provider was constructed around (lines 156-161).
DataBundle ==
    Cube(result.labels["dates"], result.labels["tickers"], result.labels["fields"],
         result.val)

\* data.loc[start_date:end_date]: the dates within the two bounds.
loc_dates_between(cube, start_date, end_date) ==
    LET keep == SelectSeq([k \in DOMAIN cube.dates |-> k],
                          LAMBDA k : start_date <= cube.dates[k]
                                     /\ cube.dates[k] <= end_date)
        dates == [j \in DOMAIN keep |-> cube.dates[keep[j]]]
    IN  Cube(dates, cube.tickers, cube.fields,
             [x \in CubeCells(dates, cube.tickers, cube.fields) |->
                 cube.val[<<keep[x[1]], x[2], x[3]>>]])

\* The names of a list of tickers.
NamesOf(tickers) == [k \in DOMAIN tickers |-> tickers[k].name]

\* A query that keeps every repetition of a requested ticker.
preset_get_history_KeepRepeated(cube, t_arg, f_arg, field_type, start_date, end_date) ==
    LET tickers == convert_to_list(t_arg, "Ticker")
        fields  == convert_to_list(f_arg, field_type)
    IN  normalize_data_array(loc_dates_between(cube, start_date, end_date),
            NamesOf(tickers.list), fields.list,
            got_single_date_of(start_date, end_date, DAILY),
            tickers.single, fields.single)

\* PresetDataProvider.get_history and get_price over the loaded cube: the
\* requested tickers, each once, and the requested fields are looked up in
\* the dates of the window, and the result is squeezed as everywhere.
preset_get_history(cube, t_arg, f_arg, field_type, start_date, end_date) ==
    LET tickers == convert_to_list(t_arg, "Ticker")
        fields  == convert_to_list(f_arg, field_type)
    IN  normalize_data_array(loc_dates_between(cube, start_date, end_date),
            NamesOf(Unique(tickers.list)), fields.list,
            got_single_date_of(start_date, end_date, DAILY),
            tickers.single, fields.single)

\* The ticker arguments of a query: a ticker of the cube, or a list of two.
PresetTickerArgs(bare) ==
    LET loaded == {QLibTicker(n, "STOCK") : n \in Range(result.labels["tickers"])}
    IN  IF bare THEN loaded ELSE {<<x, y>> : x \in loaded, y \in loaded}

\* A query answered from the loaded cube.
PresetQuery(call, field_type, field) ==
    /\ field \in Range(result.labels["fields"])
    /\ \E bare_ticker \in BOOLEAN, bare_field \in BOOLEAN, single_date \in BOOLEAN :
         \E t \in PresetTickerArgs(bare_ticker) :
           LET t_arg == IF bare_ticker THEN Bare("Ticker", t) ELSE PyList(t)
               f_arg == IF bare_field THEN Bare(field_type, field)
                        ELSE PyList(<<field>>)
               end_date == IF single_date THEN start_arg ELSE end_arg
           IN  answer' = [call |-> call, tickers |-> t_arg, fields |-> f_arg,
                          start_date |-> start_arg, end_date |-> end_date,
                          value |-> preset_get_history(DataBundle, t_arg, f_arg,
                                        field_type, start_arg, end_date)]
    /\ pc' = "answered"
    /\ UNCHANGED <<request_vars, loc, quote_ctx, i, df, page_req_key, tickers_df_dict,
                   available_fields, qf_data_array, result, exc, requests, pages>>

\* get_history(tickers, 'close', ...) for the window the provider loaded or
\* for its first day.
PresetGetHistory ==
    /\ pc = "constructed"
    /\ PresetQuery("get_history", "str", "close")

\* get_price(tickers, PriceField.Close, ...) likewise.
PresetGetPrice ==
    /\ pc = "constructed"
    /\ PresetQuery("get_price", "PriceField", "PriceField.Close")

\* A provider constructed in a process that has the library and the archive.
InitPreset == InitConstruct /\ env = UsableEnv

NextPreset ==
    \/ QLibConstruct
    \/ QLibMapTickers
    \/ QLibFeatures
    \/ QLibSlice
    \/ QLibProcessDf
    \/ QLibFinish
    \/ PresetGetHistory
    \/ PresetGetPrice

SpecPreset == InitPreset /\ [][NextPreset]_vars

---------------------------------------------------------------------------
(* get_history for every token a field may be named by                     *)

\* The tokens: the five strs, the five PriceFields, and a str outside the
\* vocabulary.
FieldTokens == {"open", "high", "low", "close", "volume", "turnover"} \cup PriceFields

\* 90-143 for fields named by one str, or by a list of one or two tokens.
CallFieldTokens ==
    /\ pc = "idle"
    /\ \E f \in SeqsUpTo(FieldTokens, 2), bare \in BOOLEAN :
          CallWith(Bare("FutuTicker", "AAPL"),
                   IF bare /\ Len(f) = 1 /\ f[1] \notin PriceFields
                   THEN Bare("str", f[1])
                   ELSE PyList(f),
                   DateTime(1, 0, 0, 0), DateTime(MaxDay, 0, 0, 0),
                   FALSE, DAILY, DateTime(MaxDay, 16, 0, 0))

NextFields ==
    \/ CallFieldTokens
    \/ OpenQuoteContext
    \/ RequestFirstPage
    \/ RequestNextPage
    \/ ProcessFrame
    \/ CloseQuoteContext
    \/ Return

SpecFields == Init /\ [][NextFields]_vars

---------------------------------------------------------------------------
(* get_history for every kind of frequency, with ends given to the second  *)
(* or not given at all.                                                    *)

\* Two intraday frequencies and three of a day or more; MIN_10 and YEARLY
\* are not in the mapping of _frequency_to_period.
Frequencies == {"MIN_60", "MIN_10", "DAILY", "WEEKLY", "YEARLY"}

\* The ends a caller gives: none, a date, or a time of a day.
EndDatesFrom(s) ==
    {NoDate} \cup {DateTime(e, 0, 0, 0) : e \in s..MaxDay}
             \cup {DateTime(e, 10, 30, 30) : e \in s..MaxDay}

\* The times of the timer, one of them off the minute.
TimerTimes ==
    {DateTime(nd, 0, 0, 0) + nt : nd \in Days, nt \in NowTimes}
    \cup {DateTime(nd, 10, 30, 30) : nd \in Days}

\* 90-143: the call, for any frequency and any end.
CallAnyFrequency ==
    /\ pc = "idle"
    /\ \E t_arg \in {Bare("FutuTicker", "AAPL"), PyList(<<"MSFT", "AAPL">>)},
          f_arg \in {Bare("str", "close"), PyList(<<"close", "open">>)},
          s \in Days, bias \in BOOLEAN, freq \in Frequencies,
          current_time \in TimerTimes :
          \E e \in EndDatesFrom(s) :
              CallWith(t_arg, f_arg, DateTime(s, 0, 0, 0), e, bias, freq, current_time)

NextFrequency ==
    \/ CallAnyFrequency
    \/ OpenQuoteContext
    \/ RequestFirstPage
    \/ RequestNextPage
    \/ ProcessFrame
    \/ CloseQuoteContext
    \/ Return

SpecFrequency == Init /\ [][NextFrequency]_vars

---------------------------------------------------------------------------
(* What the claims speak of.                                               *)

Done == pc = "done"

\* The number of labels the caller supplied on an axis.
Supplied(arg) == IF arg.py = "list" THEN Len(arg.items) ELSE 1

\* The labels the caller supplied, in his order.
SuppliedLabels(arg) == IF arg.py = "list" THEN arg.items ELSE <<arg.v>>

IsBare(arg) == arg.py # "list"

\* The request names one calendar day.
OneDate == DayOf(start_arg) = DayOf(end_arg)

HasAxis(a) == a \in Range(result.axes)

Rank == Len(result.axes)

\* The result is a 1-D series along axis a carrying these labels.
IsSeriesOver(a, labels) ==
    /\ result.py = "QFSeries"
    /\ result.axes = <<a>>
    /\ result.labels[a] = labels
    /\ DOMAIN result.val = {<<k>> : k \in DOMAIN labels}

\* The result is a 2-D table of tickers by fields carrying these labels.
IsTickerFieldTable(tickers, fields) ==
    /\ result.py = "QFDataFrame"
    /\ result.axes = <<"tickers", "fields">>
    /\ result.labels["tickers"] = tickers
    /\ result.labels["fields"] = fields
    /\ DOMAIN result.val = {<<a, b>> : a \in DOMAIN tickers, b \in DOMAIN fields}

---------------------------------------------------------------------------
(* C1.  The rank of the result follows the shape of the request.           *)

\* C1 as stated, tickers and fields counted: (1 ticker, 1 field, 1 date)
\* gives a scalar, (N>1, 1, 1 date) a series of N by ticker, (1, M>1, 1
\* date) a series of M by field, (N>1, M>1, 1 date) an N x M table,
\* (N>1, M>1, D>1 dates) a cube.
C1_RankByCount ==
    Done =>
        LET N == Supplied(tickers_arg)
            M == Supplied(fields_arg)
        IN  /\ (N = 1 /\ M = 1 /\ OneDate) => result.py = "float"
            /\ (N > 1 /\ M = 1 /\ OneDate) =>
                   IsSeriesOver("tickers", SuppliedLabels(tickers_arg))
            /\ (N = 1 /\ M > 1 /\ OneDate) =>
                   IsSeriesOver("fields", SuppliedLabels(fields_arg))
            /\ (N > 1 /\ M > 1 /\ OneDate) =>
                   IsTickerFieldTable(SuppliedLabels(tickers_arg),
                                      SuppliedLabels(fields_arg))
            /\ (N > 1 /\ M > 1 /\ ~OneDate) => result.py = "QFDataArray"

\* C1 amended: "one ticker" and "one field" mean a bare value; a list of
\* N >= 1 tickers or M >= 1 fields is a list.  (bare, bare, 1 date) gives a
\* scalar, (list of N, bare, 1 date) a series of N labelled by ticker,
\* (bare, list of M, 1 date) a series of M labelled by field, (list of N,
\* list of M, 1 date) an N x M table, (list, list, D>1 dates) a cube.
C1_RankByShape ==
    Done =>
        /\ (IsBare(tickers_arg) /\ IsBare(fields_arg) /\ OneDate) =>
               result.py = "float" /\ Rank = 0
        /\ (~IsBare(tickers_arg) /\ IsBare(fields_arg) /\ OneDate) =>
               IsSeriesOver("tickers", tickers_arg.items)
        /\ (IsBare(tickers_arg) /\ ~IsBare(fields_arg) /\ OneDate) =>
               IsSeriesOver("fields", fields_arg.items)
        /\ (~IsBare(tickers_arg) /\ ~IsBare(fields_arg) /\ OneDate) =>
               IsTickerFieldTable(tickers_arg.items, fields_arg.items)
        /\ (~IsBare(tickers_arg) /\ ~IsBare(fields_arg) /\ ~OneDate) =>
               /\ result.py = "QFDataArray"
               /\ result.axes = AxisNames
               /\ result.labels["tickers"] = tickers_arg.items
               /\ result.labels["fields"] = fields_arg.items

\* Two tickers and two fields for one day came back as a 2 x 2 table with
\* a value in it.
C1_Witness ==
    /\ Done
    /\ tickers_arg = PyList(<<"AAPL", "MSFT">>)
    /\ fields_arg = PyList(<<"close", "open">>)
    /\ OneDate
    /\ IsTickerFieldTable(<<"AAPL", "MSFT">>, <<"close", "open">>)
    /\ result.val[<<1, 1>>] # NaN

---------------------------------------------------------------------------
(* C2.  Look-ahead: the bar of the current day is withheld until the       *)
(* market close.                                                           *)

\* The tickers whose frame was stored.
Fetched == Range(tickers_df_dict.keys)

\* The server holds a bar of ticker t for the day, with a requested column.
SourceHasBar(t, day) ==
    /\ \E k \in DOMAIN ArchiveBars(t, 1) : ArchiveBars(t, 1)[k][1] = day
    /\ Range(loc.fields) \cap Range(SourceColumns(t)) # {}

\* The result shows a bar of the day: a row labelled by the day, or, when
\* the date axis is gone, a value of the one requested day.
ResultShowsDay(day) ==
    IF HasAxis("dates")
    THEN DateTime(day, 0, 0, 0) \in Range(result.labels["dates"])
    ELSE /\ DayOf(start_arg) = day
         /\ \E x \in DOMAIN result.val : result.val[x] # NaN

\* The market close of the day has been reached at the current time.
ClosePassed(day) == now >= MarketCloseTrigger(day)

\* Every request made for the ticker was answered without an error code.
Answered(t) ==
    \A k \in DOMAIN requests : requests[k].ticker = t => requests[k].ret = "RET_OK"

\* C2: daily bars, close at 15:00, look_ahead_bias false, the request ends
\* on the current day D.  Before 15:00 the result shows no bar of D and no
\* request asks the server for D; from 15:00 on, every request asks for the
\* window up to D and the bar of D of every fetched ticker whose requests
\* were all answered is shown; the bars of the earlier days of the window
\* are shown in both cases.
C2_LookAheadAtClose ==
    (Done /\ ~look_ahead_bias /\ frequency = DAILY /\ DayOf(now) = DayOf(end_arg)) =>
        LET D == DayOf(end_arg)
            Shown(d) == \A t \in Fetched :
                            (Answered(t) /\ SourceHasBar(t, d)) => ResultShowsDay(d)
        IN  /\ ~ClosePassed(D) =>
                   /\ ~ResultShowsDay(D)
                   /\ \A k \in DOMAIN requests : requests[k].end < D
            /\ ClosePassed(D) =>
                   /\ \A k \in DOMAIN requests : requests[k].end = D
                   /\ Shown(D)
            /\ \A d \in DayOf(start_arg)..(D - 1) : Shown(d)

\* At 15:00 of the last day of a two-day window both days are shown.
C2_WitnessAtClose ==
    /\ Done
    /\ ~look_ahead_bias
    /\ now = MarketCloseTrigger(DayOf(end_arg))
    /\ DayOf(start_arg) = DayOf(end_arg) - 1
    /\ Fetched # {}
    /\ ResultShowsDay(DayOf(start_arg))
    /\ ResultShowsDay(DayOf(end_arg))

\* At 14:59 of the last day of a two-day window the first day's bar is
\* shown and the last day's is not.
C2_Witness ==
    /\ Done
    /\ ~look_ahead_bias
    /\ DayOf(now) = DayOf(end_arg)
    /\ SecondOfDay(now) = DateTime(0, 14, 59, 0)
    /\ DayOf(start_arg) = DayOf(end_arg) - 1
    /\ Fetched # {}
    /\ ResultShowsDay(DayOf(start_arg))
    /\ ~ResultShowsDay(DayOf(end_arg))

---------------------------------------------------------------------------
(* C3.  A ticker requested twice has two entries in the result.            *)

\* The dates the result speaks about: its date labels, or, when the date
\* axis is gone, the dates of the assembled cube.
ShownDates ==
    IF HasAxis("dates") THEN Range(result.labels["dates"])
    ELSE Range(qf_data_array.dates)

\* The positions of the result along an axis; one position when it is gone.
Positions(a) == IF HasAxis(a) THEN DOMAIN result.labels[a] ELSE {1}

\* The value the result holds for date d at the given ticker and field
\* positions of the request.
ResultValue(d, tpos, fpos) ==
    result.val[[k \in DOMAIN result.axes |->
                   CASE result.axes[k] = "dates" ->
                            IndexOf(result.labels["dates"], d)
                     [] result.axes[k] = "tickers" -> tpos
                     [] OTHER -> fpos]]

\* The value stored for ticker t, date d and field f in the dict of frames.
StoredValue(t, d, f) ==
    IF t \in Fetched THEN FrameCell(tickers_df_dict.frames[t], d, f) ELSE NaN

\* The positions of the requested tickers whose ticker is requested twice.
Repeated ==
    {a \in DOMAIN loc.tickers :
        \E b \in DOMAIN loc.tickers : a # b /\ loc.tickers[a] = loc.tickers[b]}

\* C3: when a ticker is listed twice, the ticker axis of the result carries
\* the requested list as it was given, and each of the repeated entries
\* holds the values of the one frame the dict stores for that ticker.
C3_DuplicateTickerKept ==
    (Done /\ ~IsBare(tickers_arg) /\ Repeated # {}) =>
        /\ HasAxis("tickers")
        /\ result.labels["tickers"] = tickers_arg.items
        /\ \A a \in Repeated : \A d \in ShownDates : \A fpos \in Positions("fields") :
               ResultValue(d, a, fpos)
                   = StoredValue(tickers_arg.items[a], d, loc.fields[fpos])

\* [X, X] was requested, the first request for X failed and the second
\* succeeded, and both entries of the result hold X's value.
C3_Witness ==
    /\ Done
    /\ ~IsBare(tickers_arg)
    /\ Len(tickers_arg.items) = 2
    /\ tickers_arg.items[1] = tickers_arg.items[2]
    /\ Len(requests) = 2
    /\ requests[1].ret = "RET_ERROR"
    /\ \E d \in ShownDates :
          /\ ResultValue(d, 1, 1) # NaN
          /\ ResultValue(d, 2, 1) = ResultValue(d, 1, 1)

---------------------------------------------------------------------------
(* C4.  A ticker whose first page fails does not disturb the others.       *)

\* Some ticker's first-page request was answered with an error code.
FirstPageFailed ==
    \E k \in DOMAIN requests :
        requests[k].page_req_key = NoPageKey /\ requests[k].ret # "RET_OK"

\* The first-page requests made so far, in order.
FirstPageRequests ==
    SelectSeq(requests, LAMBDA r : r.page_req_key = NoPageKey)

\* C4: once a first-page request has failed the call does not raise, and
\* when the call is over every ticker of the list has been requested and
\* the result holds the stored values of every ticker whose requests were
\* all answered.
C4_FirstPageErrorIsolated ==
    FirstPageFailed =>
        /\ pc # "raised"
        /\ Done =>
              /\ [k \in DOMAIN FirstPageRequests |-> FirstPageRequests[k].ticker]
                     = loc.tickers
              /\ \A a \in DOMAIN loc.tickers :
                     (loc.tickers[a] \in Fetched /\ Answered(loc.tickers[a])) =>
                         \A d \in ShownDates : \A fpos \in Positions("fields") :
                             ResultValue(d, IF HasAxis("tickers") THEN a ELSE 1, fpos)
                                 = StoredValue(loc.tickers[a], d, loc.fields[fpos])

---------------------------------------------------------------------------
(* C5.  The quote connection is closed on every way out of get_history.    *)

\* Control has left get_history, by return or by exception.
Left == pc \in {"done", "raised"}

\* C5: when control has left get_history no connection it opened is open.
C5_ClosedOnEveryExit == Left => quote_ctx # "open"

---------------------------------------------------------------------------
(* C6.  Follow-up pages are requested by page key and concatenated.        *)

RECURSIVE ConcatRows(_)
\* The rows of the pages, in the order the pages were received.
ConcatRows(ps) ==
    IF ps = <<>> THEN <<>> ELSE Head(ps).rows \o ConcatRows(Tail(ps))

\* Request k follows the page key of the response before it.
FollowsPageKey(k) ==
    /\ k > 1
    /\ requests[k - 1].ticker = requests[k].ticker
    /\ requests[k - 1].ret = "RET_OK"
    /\ requests[k].page_req_key
           = SourcePage(requests[k - 1].ticker, requests[k - 1].start,
                        requests[k - 1].end, requests[k - 1].ktype,
                        requests[k - 1].page_req_key).page_req_key

\* C6: every follow-up request carries the page key of the response before
\* it; a ticker is left for processing without error only when its last
\* response carried no page key; and once a follow-up page has been
\* received the call goes on and the ticker's table holds the rows of the
\* pages in the order they were received.
C6_PagesFollowedAndConcatenated ==
    /\ \A k \in DOMAIN requests :
           requests[k].page_req_key # NoPageKey => FollowsPageKey(k)
    /\ (pc = "process" /\ requests[Len(requests)].ret = "RET_OK") =>
           page_req_key = NoPageKey
    /\ (pc \in {"while", "process", "raised"} /\ Len(pages) >= 2) =>
           /\ pc # "raised"
           /\ df.rows = ConcatRows(pages)

---------------------------------------------------------------------------
(* C7.  Rows sharing a timestamp: the first is kept, for both providers.   *)

\* The clean-up of the raw rows is over (Futu line 179, QLib line 219).
Cleaned == pc \in {"for", "qlib_next"}

\* The column of the raw rows that holds the timestamp.
StampColumn == IF pc = "for" THEN "time_key" ELSE "datetime"

\* The raw rows the table was made from, in source order.
RawRows == pages[1].rows

\* The first raw row with the timestamp.
FirstRaw(stamp) ==
    RawRows[CHOOSE k \in DOMAIN RawRows :
                /\ RawRows[k].data[StampColumn] = stamp
                /\ \A j \in 1..(k - 1) : RawRows[j].data[StampColumn] # stamp]

\* C7: the table stored for the ticker has exactly one row for each
\* timestamp of the raw rows and no other row, and each row holds, in every
\* column of the table, the values of the first raw row with its timestamp.
C7_FirstOfEachTimestampKept ==
    Cleaned =>
        LET table == tickers_df_dict.frames["AAPL"]
            RawStamps == {RawRows[k].data[StampColumn] : k \in DOMAIN RawRows}
        IN  /\ \A stamp \in RawStamps :
                   Cardinality({k \in DOMAIN table.rows : table.rows[k].idx = stamp}) = 1
            /\ \A k \in DOMAIN table.rows :
                   /\ table.rows[k].idx \in RawStamps
                   /\ \A c \in Range(table.columns) \cap {"close", "volume"} :
                          table.rows[k].data[c] = FirstRaw(table.rows[k].idx).data[c]
            /\ "close" \in Range(table.columns)

\* Three raw rows, the timestamp of the first repeated by the third, with
\* another timestamp between them; the table has two rows.
C7_Witness ==
    /\ Cleaned
    /\ Len(RawRows) = 3
    /\ RawRows[1].data[StampColumn] = RawRows[3].data[StampColumn]
    /\ RawRows[1].data[StampColumn] # RawRows[2].data[StampColumn]
    /\ Len(tickers_df_dict.frames["AAPL"].rows) = 2

\* The same for QLib, whose raw rows are time-ordered: the timestamp is
\* carried by the first two of three rows.
C7_WitnessQLib ==
    /\ pc = "qlib_next"
    /\ Len(RawRows) = 3
    /\ RawRows[1].data["datetime"] = RawRows[2].data["datetime"]
    /\ RawRows[2].data["datetime"] # RawRows[3].data["datetime"]
    /\ Len(df.rows) = 2
    /\ df.rows[1].data["close"] = RawRows[1].data["close"]

---------------------------------------------------------------------------
(* C8.  A window without bars gives an empty but labelled result.          *)

\* The request was accepted (line 148 was reached) and the server holds no
\* bar of any requested ticker in the window that is asked for.
NoObservableBar ==
    /\ quote_ctx # "none"
    /\ \A k \in DOMAIN loc.tickers :
           BarsInWindow(loc.tickers[k], StrftimeYmd(loc.start_date),
                        StrftimeYmd(loc.end_date)) = <<>>

\* The axis of a listed argument is there and carries the list.
ListedLabelsKept ==
    /\ ~IsBare(tickers_arg) =>
           HasAxis("tickers") /\ result.labels["tickers"] = tickers_arg.items
    /\ ~IsBare(fields_arg) =>
           HasAxis("fields") /\ result.labels["fields"] = fields_arg.items

\* C8 as claimed: whenever the window holds no bar the result has a date
\* axis of length zero and carries the requested labels, and no error is
\* raised.
C8_ZeroLengthDateAxis ==
    NoObservableBar =>
        /\ pc # "raised"
        /\ Done =>
              /\ HasAxis("dates")
              /\ result.labels["dates"] = <<>>
              /\ ListedLabelsKept

\* C8 as amended: no error is raised and the listed tickers and fields
\* label their axes; a request over several days gives a date axis of
\* length zero, a request for one day gives no date axis and NaN in every
\* entry.
C8_EmptyWindowLabelled ==
    NoObservableBar =>
        /\ pc # "raised"
        /\ Done =>
              /\ ListedLabelsKept
              /\ ~OneDate => (HasAxis("dates") /\ result.labels["dates"] = <<>>)
              /\ OneDate => /\ ~HasAxis("dates")
                            /\ \A x \in DOMAIN result.val : result.val[x] = NaN

\* Before the first close of a two-day window, with look_ahead_bias false:
\* a table of no dates by the listed tickers.
C8_Witness ==
    /\ Done
    /\ NoObservableBar
    /\ ~look_ahead_bias
    /\ now < MarketCloseTrigger(DayOf(start_arg))
    /\ ~OneDate
    /\ ~IsBare(tickers_arg)
    /\ Len(tickers_arg.items) = 2
    /\ IsBare(fields_arg)
    /\ result.axes = <<"dates", "tickers">>
    /\ result.labels["dates"] = <<>>
    /\ result.labels["tickers"] = tickers_arg.items

---------------------------------------------------------------------------
(* C9.  Which requests lose the ticker axis or the field axis.             *)

\* C9 as claimed: the ticker axis, and the field axis, is removed exactly
\* when the request names one label on it, a one-element list included.
C9_AxisRemovedByCardinality ==
    Done =>
        /\ ~HasAxis("tickers") <=> Supplied(tickers_arg) = 1
        /\ ~HasAxis("fields") <=> Supplied(fields_arg) = 1

\* C9 as amended: the ticker axis, and the field axis, is removed exactly
\* when the argument was passed bare and not as a list, whatever the number
\* of elements of the list and whatever data came back.
C9_AxisRemovedByBareness ==
    Done =>
        /\ ~HasAxis("tickers") <=> IsBare(tickers_arg)
        /\ ~HasAxis("fields") <=> IsBare(fields_arg)

\* A one-element ticker list whose only request failed: no data came back
\* and the ticker axis is there with its label; the bare field has no axis.
C9_Witness ==
    /\ Done
    /\ ~IsBare(tickers_arg)
    /\ Supplied(tickers_arg) = 1
    /\ IsBare(fields_arg)
    /\ Fetched = {}
    /\ HasAxis("tickers")
    /\ result.labels["tickers"] = tickers_arg.items
    /\ ~HasAxis("fields")

---------------------------------------------------------------------------
(* C10.  A one-element list keeps its axis.                                *)

\* C10: with X the only ticker and f the only field of the request,
\* ([X], f, one date) gives a series labelled X, (X, [f], one date) a series
\* labelled f, ([X], [f], several dates) a cube of dates by X by f; and an
\* argument naming one label loses its axis only when it was passed bare.
C10_OneElementListKeepsAxis ==
    (Done /\ Supplied(tickers_arg) = 1 /\ Supplied(fields_arg) = 1) =>
        /\ (~IsBare(tickers_arg) /\ IsBare(fields_arg) /\ OneDate) =>
               IsSeriesOver("tickers", SuppliedLabels(tickers_arg))
        /\ (IsBare(tickers_arg) /\ ~IsBare(fields_arg) /\ OneDate) =>
               IsSeriesOver("fields", SuppliedLabels(fields_arg))
        /\ (~IsBare(tickers_arg) /\ ~IsBare(fields_arg) /\ ~OneDate) =>
               /\ result.py = "QFDataArray"
               /\ result.axes = AxisNames
               /\ result.labels["tickers"] = SuppliedLabels(tickers_arg)
               /\ result.labels["fields"] = SuppliedLabels(fields_arg)
               /\ DOMAIN result.val
                      = (DOMAIN result.labels["dates"]) \X {1} \X {1}
        /\ IsBare(tickers_arg) => ~HasAxis("tickers")
        /\ IsBare(fields_arg) => ~HasAxis("fields")

\* ('AAPL', ['close'], one date) came back as a series labelled 'close'
\* holding the day's close.
C10_Witness ==
    /\ Done
    /\ tickers_arg = Bare("FutuTicker", "AAPL")
    /\ fields_arg = PyList(<<"close">>)
    /\ OneDate
    /\ IsSeriesOver("fields", <<"close">>)
    /\ result.val[<<1>>] = SourceValue("AAPL", "close", DayOf(start_arg), 1)

---------------------------------------------------------------------------
(* C11.  Where the single-date flag comes from.                            *)

\* The window that is asked for after the look-ahead clamp lies in one day.
ClampedToOneDay == DayOf(loc.start_date) = DayOf(loc.end_date)

\* C11 as claimed: the flag is taken from the clamped window, so a result
\* for a window clamped to one day has no date axis.
C11_FlagFromClampedWindow ==
    Done =>
        /\ loc.got_single_date <=> ClampedToOneDay
        /\ ClampedToOneDay => ~HasAxis("dates")

\* C11 as amended: the flag is taken from the adjusted start and the
\* requested end before the clamp; the date axis is removed exactly when
\* the request itself names one day, and a request over several days keeps
\* it even when the clamp leaves one day.
C11_FlagFromRequestedWindow ==
    Done =>
        /\ loc.got_single_date <=> OneDate
        /\ ~HasAxis("dates") <=> OneDate

\* A two-day request at the close of its first day: the clamped window is
\* that day alone and the result has a date axis with that one date.
C11_Witness ==
    /\ Done
    /\ ~look_ahead_bias
    /\ ~OneDate
    /\ ClampedToOneDay
    /\ ~loc.got_single_date
    /\ HasAxis("dates")
    /\ result.labels["dates"] = <<start_arg>>

---------------------------------------------------------------------------
(* C12.  One bar left by the clamp of a several-day request.               *)

\* C12: the request names different days, look_ahead_bias is false and the
\* clamped window holds one bar.  The date axis is kept with that one
\* date: a bare ticker and a bare field give a series over the date, a
\* one-element ticker list with a bare field a table of one row.
C12_OneBarKeepsDateAxis ==
    (Done /\ ~look_ahead_bias /\ ~OneDate /\ Len(qf_data_array.dates) = 1) =>
        /\ HasAxis("dates")
        /\ result.labels["dates"] = qf_data_array.dates
        /\ (IsBare(tickers_arg) /\ IsBare(fields_arg)) =>
               IsSeriesOver("dates", qf_data_array.dates)
        /\ (~IsBare(tickers_arg) /\ Supplied(tickers_arg) = 1 /\ IsBare(fields_arg)) =>
               /\ result.py = "QFDataFrame"
               /\ result.axes = <<"dates", "tickers">>
               /\ result.labels["tickers"] = tickers_arg.items
               /\ DOMAIN result.val = {<<1, 1>>}

\* ('AAPL', 'close', day 1, day 2) at the close of day 1: a series of one
\* date holding the close of day 1.
C12_Witness ==
    /\ Done
    /\ ~look_ahead_bias
    /\ tickers_arg = Bare("FutuTicker", "AAPL")
    /\ fields_arg = Bare("str", "close")
    /\ DayOf(end_arg) = DayOf(start_arg) + 1
    /\ now = MarketCloseTrigger(DayOf(start_arg))
    /\ IsSeriesOver("dates", <<start_arg>>)
    /\ result.val[<<1>>] = SourceValue("AAPL", "close", DayOf(start_arg), 1)

---------------------------------------------------------------------------
(* C13.  Requested fields the source does not provide.                     *)

\* The call raised before the connection was opened.
RaisedBeforeOpen == pc = "raised" /\ quote_ctx = "none"

\* C13: every stored table has the requested fields the source returned as
\* its columns and no other, and no name in a field list makes the call
\* raise: a call with a field list that raises before it connects was
\* given a frequency the provider does not support.
C13_FieldsProjectedNeverRaise ==
    /\ \A t \in Fetched :
           loc.fields # <<>> =>
               Range(tickers_df_dict.frames[t].columns)
                   = Range(loc.fields) \cap Range(SourceColumns(t))
    /\ (RaisedBeforeOpen /\ ~IsBare(fields_arg)) =>
           frequency_to_period(frequency).raised # "None"

---------------------------------------------------------------------------
(* C14.  A frequency the provider does not map.                            *)

\* The frequencies of the mapping of _frequency_to_period.
MappedFrequencies ==
    {"MIN_1", "MIN_5", "MIN_15", "MIN_30", "MIN_60",
     "DAILY", "WEEKLY", "MONTHLY", "QUARTERLY"}

\* get_history has been called.
Called == pc # "idle"

\* C14: a call with a frequency outside the mapping has raised ValueError,
\* with no connection opened and no request issued; it never gets further.
C14_UnmappedFrequencyRaises ==
    (Called /\ frequency \notin MappedFrequencies) =>
        /\ pc = "raised"
        /\ exc = "ValueError"
        /\ quote_ctx = "none"
        /\ requests = <<>>

\* A call at ten-minute frequency has raised ValueError.
C14_Witness ==
    /\ pc = "raised"
    /\ frequency = "MIN_10"
    /\ exc = "ValueError"
    /\ quote_ctx = "none"
    /\ requests = <<>>

---------------------------------------------------------------------------
(* C18.  The end date when look-ahead is allowed.                          *)

\* The end the caller asked for: the end given, or the current time.
RequestedEnd == IF end_arg = NoDate THEN now ELSE end_arg

\* C18: with look_ahead_bias true the effective end is the requested end
\* with its seconds at zero, moved to 23:59 of its day for daily and lower
\* frequencies and left at its time of day for intraday ones; every
\* request asks for the window up to the day of the requested end.
C18_EndDateWithLookAhead ==
    (Called /\ look_ahead_bias) =>
        /\ IsDailyOrLower(frequency) =>
               loc.end_date = DateTime(DayOf(RequestedEnd), 23, 59, 0)
        /\ ~IsDailyOrLower(frequency) =>
               /\ loc.end_date <= RequestedEnd
               /\ RequestedEnd - loc.end_date < SecondsPerMinute
               /\ loc.end_date % SecondsPerMinute = 0
        /\ \A k \in DOMAIN requests : requests[k].end = DayOf(RequestedEnd)

\* An hourly request with the end at 10:30:30 of a later day than the
\* timer's: the effective end is 10:30:00 of that day and it was requested.
C18_Witness ==
    /\ Called
    /\ look_ahead_bias
    /\ frequency = "MIN_60"
    /\ end_arg # NoDate
    /\ DayOf(now) < DayOf(end_arg)
    /\ SecondOfDay(end_arg) = DateTime(0, 10, 30, 30)
    /\ loc.end_date = DateTime(DayOf(end_arg), 10, 30, 0)
    /\ requests # <<>>
    /\ requests[1].end = DayOf(end_arg)

\* The same for a weekly request whose end was not given: 23:59 of the
\* timer's day.
C18_WitnessNoEnd ==
    /\ Called
    /\ look_ahead_bias
    /\ frequency = "WEEKLY"
    /\ end_arg = NoDate
    /\ loc.end_date = DateTime(DayOf(now), 23, 59, 0)
    /\ requests # <<>>

---------------------------------------------------------------------------
(* C19.  No bar later than the effective end without look-ahead.           *)

\* C19: with look_ahead_bias false, whatever the frequency, the result
\* speaks of no date later than the effective end date.
C19_NoBarAfterEffectiveEnd ==
    (Done /\ ~look_ahead_bias) =>
        \A d \in ShownDates : d <= loc.end_date

---------------------------------------------------------------------------
(* The construction of a QLibDataProvider                                  *)

\* The tickers the constructor was given, as a list.
ConstructorTickers == convert_to_list(tickers_arg, "Ticker").list

Supported(ticker) == ticker.security_type \in {"STOCK", "INDEX"}

\* D.features has been called.
FeaturesFetched == \E k \in DOMAIN requests : requests[k].call = "features"

Yields(instrument) ==
    features(<<instrument>>, loc.start_date, loc.end_date).rows # <<>>

\* The instruments the constructor asked the archive for.
RequestedInstruments == Range(loc.tickers_str_mapping)

\* The constructor has come to its end with tickers it supports.
ConstructionEnded ==
    /\ pc \in {"raised", "constructed"}
    /\ \A k \in DOMAIN ConstructorTickers : Supported(ConstructorTickers[k])

\* C16: the construction of a QLibDataProvider ends with the ImportError
\* 'No data was found' exactly when none of the requested instruments has
\* data; when some have data and others have none it ends without an error
\* and its cube holds the instruments that have data.
C16_NoDataFoundOnlyWhenAllEmpty ==
    ConstructionEnded =>
        IF \A n \in RequestedInstruments : ~Yields(n)
        THEN pc = "raised" /\ exc = "ImportError" /\ result = NoResult
        ELSE /\ pc = "constructed"
             /\ exc = "None"
             /\ Range(result.labels.tickers) = {n \in RequestedInstruments : Yields(n)}

\* A provider constructed although one of its instruments has no data.
C16_Witness ==
    /\ pc = "constructed"
    /\ \E n \in RequestedInstruments : ~Yields(n)
    /\ \E n \in RequestedInstruments : Yields(n)

\* A construction that found no data for the instruments it asked for.
C16_WitnessNoData ==
    /\ pc = "raised"
    /\ exc = "ImportError"
    /\ RequestedInstruments # {}

---------------------------------------------------------------------------
(* Construction in a process that lacks a library or the archive           *)

\* The archive has been initialised or read.
ArchiveTouched ==
    \E k \in DOMAIN requests :
        requests[k].call \in {"qlib.init", "list_instruments", "features"}

\* The construction of a QLibDataProvider has gone past its checks.
QLibProceeded ==
    pc \in {"qlib_map", "qlib_features", "qlib_next", "qlib_process",
            "raised", "constructed"}

\* The process ended with status 1 after one diagnostic and nothing else.
ExitedAfterDiagnostic ==
    /\ exc = "SystemExit(1)"
    /\ requests = <<[call |-> "warn"]>>
    /\ result = NoResult

\* The directory named is not on the disk.
NotOnDisk(path) ==
    path = "missing" \/ (path = "default" /\ ~env.default_exists)

\* Neither the path argument nor QLIB_DIR names a directory.
PathUnspecified == env.path = "" /\ env.QLIB_DIR \in {"unset", ""}

\* C17 (as written): without the library (either provider), or with an
\* archive directory that is unspecified or does not exist, construction
\* emits a diagnostic and ends the process with status 1, returns no
\* provider, and the archive is neither initialised nor read.
C17_ExitWhenPathUnspecified ==
    /\ pc = "exited" => ExitedAfterDiagnostic
    /\ ~env.is_futu_installed => pc # "idle"
    /\ (\/ ~env.is_qlib_installed
        \/ PathUnspecified
        \/ NotOnDisk(ResolvedPath(env)))
           => ~QLibProceeded /\ ~ArchiveTouched

\* C17 (amended): the directory that decides is the one line 130 resolves,
\* the path argument, else QLIB_DIR, else the default directory: the
\* process ends when that is the empty string or is not on the disk.
C17_ExitWhenResolvedPathUnusable ==
    /\ pc = "exited" => ExitedAfterDiagnostic
    /\ ~env.is_futu_installed => pc # "idle"
    /\ (\/ ~env.is_qlib_installed
        \/ ResolvedPath(env) = ""
        \/ NotOnDisk(ResolvedPath(env)))
           => ~QLibProceeded /\ ~ArchiveTouched

\* A QLibDataProvider that ended the process for want of a directory, futu
\* and qlib being installed.
C17_Witness ==
    /\ pc = "exited"
    /\ env.is_futu_installed
    /\ env.is_qlib_installed
    /\ ResolvedPath(env) = ""

\* A FutuDataProvider that ended the process for want of the library.
C17_WitnessFutu ==
    /\ pc = "exited"
    /\ ~env.is_futu_installed
    /\ env.is_qlib_installed
    /\ ResolvedPath(env) = "data"

---------------------------------------------------------------------------
(* The order of the instrument axis                                        *)

\* The names of the tickers the constructor was given, each once, in the
\* order of the caller.
RequestedNames ==
    LET tickers == Unique(ConstructorTickers)
    IN  [k \in DOMAIN tickers |-> tickers[k].name]

\* The constructor was given stocks only, and the archive has data for
\* every one of them in the window.
StocksWithData ==
    /\ ConstructorTickers # <<>>
    /\ \A k \in DOMAIN ConstructorTickers :
           /\ ConstructorTickers[k].security_type = "STOCK"
           /\ Yields(ConstructorTickers[k].name)

\* C20: the instrument axis of the cube a QLibDataProvider is constructed
\* around lists the instruments in the order the caller listed them, not in
\* the order of the archive's answer.
C20_LabelsInRequestedOrder ==
    (pc = "constructed" /\ StocksWithData) =>
        result.labels["tickers"] = RequestedNames

\* The same for FutuDataProvider.get_history: a returned result with an
\* instrument axis lists the requested tickers in the order of the caller,
\* whichever of their requests failed.
C20_FutuLabelsInRequestedOrder ==
    (Done /\ HasAxis("tickers")) =>
        result.labels["tickers"] = SuppliedLabels(tickers_arg)

\* A result of get_history for two different tickers of which the first
\* one's request failed.
C20_FutuWitness ==
    /\ Done
    /\ HasAxis("tickers")
    /\ Len(tickers_arg.items) = 2
    /\ tickers_arg.items[1] # tickers_arg.items[2]
    /\ FirstPageRequests # <<>>
    /\ FirstPageRequests[1].ticker = tickers_arg.items[1]
    /\ FirstPageRequests[1].ret # "RET_OK"

---------------------------------------------------------------------------
(* The canonical price fields of a QLibDataProvider                        *)

\* A provider has been constructed.
Constructed == pc \in {"constructed", "answered"}

\* The pairs (column, price field) the constructor was given.
PriceFieldPairs == Range(loc.field_to_price_field_dict)

\* The cell of the loaded cube at a date and ticker position, by field label.
BundleCell(d, t, field) ==
    result.val[<<d, t, IndexOf(result.labels["fields"], field)>>]

\* The field argument of a query with every price field replaced by the
\* column mapped to it.
ColumnsFor(f_arg) ==
    LET column(v) == (CHOOSE p \in PriceFieldPairs : p[2] = v)[1]
    IN  IF f_arg.py = "list"
        THEN PyList([k \in DOMAIN f_arg.items |-> column(f_arg.items[k])])
        ELSE Bare("str", column(f_arg.v))

\* C21: the cube of a QLibDataProvider constructed with a mapping from
\* column k to price field v has a field labelled v for every pair, holding
\* at every date and ticker the value held under k; and get_price for v
\* answers with the values, dates and tickers get_history answers with for k.
C21_PriceFieldMirrorsColumn ==
    /\ Constructed =>
           \A p \in PriceFieldPairs :
               /\ p[1] \in Range(result.labels["fields"])
               /\ p[2] \in Range(result.labels["fields"])
               /\ \A d \in DOMAIN result.labels["dates"] :
                  \A t \in DOMAIN result.labels["tickers"] :
                      BundleCell(d, t, p[2]) = BundleCell(d, t, p[1])
    /\ (pc = "answered" /\ answer.call = "get_price") =>
           LET history == preset_get_history(DataBundle, answer.tickers,
                              ColumnsFor(answer.fields), "str",
                              answer.start_date, answer.end_date)
           IN  /\ answer.value.py = history.py
               /\ answer.value.axes = history.axes
               /\ answer.value.val = history.val
               /\ answer.value.labels["dates"] = history.labels["dates"]
               /\ answer.value.labels["tickers"] = history.labels["tickers"]

\* get_price answered with prices of two tickers over several dates.
C21_Witness ==
    /\ pc = "answered"
    /\ answer.call = "get_price"
    /\ Len(answer.value.labels["tickers"]) = 2
    /\ Len(answer.value.labels["dates"]) >= 2
    /\ \A x \in DOMAIN answer.value.val : answer.value.val[x] # NaN

---------------------------------------------------------------------------
(* The resolution of field tokens                                          *)

\* The tokens of the vocabulary: the five strs and the five PriceFields.
Vocabulary == {"open", "high", "low", "close", "volume"} \cup PriceFields

\* The str name of a token of the vocabulary.
NameOf(token) ==
    IF token \in PriceFields THEN price_field_to_str_map(token) ELSE token

\* C22: a PriceField and the str price_field_to_str_map gives for it
\* resolve to the same source field, and a call of get_history fails on its
\* fields only when one of them is a token outside the vocabulary.
C22_EnumAndNameResolveAlike ==
    Called =>
        /\ \A k \in DOMAIN loc.fields :
               loc.fields[k] \in Vocabulary =>
                   /\ field_to_futu_field(loc.fields[k]).raised = "None"
                   /\ field_to_futu_field(loc.fields[k])
                          = field_to_futu_field(NameOf(loc.fields[k]))
        /\ RaisedBeforeOpen => \E k \in DOMAIN loc.fields : loc.fields[k] \notin Vocabulary

\* The strs of the vocabulary resolve, each to its source field, and a str
\* outside it raises TypeError.
C22_StrResolves ==
    Called =>
        /\ \A k \in DOMAIN loc.fields :
               loc.fields[k] \in {"open", "high", "low", "close", "volume"} =>
                   field_to_futu_field(loc.fields[k])
                       = [raised |-> "None", value |-> fields_to_futu_map(loc.fields[k])]
        /\ (\A k \in DOMAIN loc.fields : loc.fields[k] \in Vocabulary \ PriceFields)
               => ~RaisedBeforeOpen

\* A call with a list of two strs of the vocabulary that went through.
C22_WitnessStr ==
    /\ Done
    /\ Len(loc.fields) = 2
    /\ \A k \in DOMAIN loc.fields : loc.fields[k] \in Vocabulary \ PriceFields

---------------------------------------------------------------------------
(* Tickers whose requests failed, in get_history                           *)

C24_ErroredTickerContributesNothing ==
    (Done /\ Repeated = {}) =>
        \A t \in Range(loc.tickers) : ~Answered(t) => t \notin Fetched

\* The half that holds: a ticker whose first page was answered with an
\* error code has no frame stored.
C24_FirstPageErrorSkips ==
    (Done /\ Repeated = {}) =>
        \A k \in DOMAIN requests :
            (requests[k].page_req_key = NoPageKey /\ requests[k].ret # "RET_OK")
                => requests[k].ticker \notin Fetched

\* No ticker of the call has a bar: its first page failed, or its frame has
\* no row.
NoDataFoundAtAll ==
    \A k \in DOMAIN requests :
        \/ requests[k].ret # "RET_OK"
        \/ SourcePage(requests[k].ticker, requests[k].start, requests[k].end,
                      requests[k].ktype, requests[k].page_req_key).data.rows = <<>>

\* The rank the request implies: an axis for each of dates, tickers and
\* fields that the request does not name singly.
ImpliedRank ==
    (IF OneDate THEN 0 ELSE 1) + (IF IsBare(tickers_arg) THEN 0 ELSE 1)
    + (IF IsBare(fields_arg) THEN 0 ELSE 1)

\* C25: a call in which every ticker failed or returned no rows does not
\* raise; it returns a structure of the rank the request implies that holds
\* no value: NaN for a scalar request, otherwise NaN in every cell, and no
\* date at all where the date axis is kept.
C25_NoDataReturnsEmpty ==
    (Left /\ ~RaisedBeforeOpen /\ NoDataFoundAtAll) =>
        /\ Done
        /\ Rank = ImpliedRank
        /\ \A x \in DOMAIN result.val : result.val[x] = NaN
        /\ HasAxis("dates") => result.labels["dates"] = <<>>
        /\ ImpliedRank = 0 => result.val = (<<>> :> NaN)

\* Both tickers of a list failed on their first page.
C25_Witness ==
    /\ Done
    /\ Len(loc.tickers) = 2
    /\ loc.tickers[1] # loc.tickers[2]
    /\ Len(requests) = 2
    /\ \A k \in DOMAIN requests :
           /\ requests[k].ret # "RET_OK"
           /\ BarsInWindow(requests[k].ticker, requests[k].start, requests[k].end) # <<>>

\* A scalar request whose ticker returned no rows.
C25_WitnessScalar ==
    /\ Done
    /\ ImpliedRank = 0
    /\ Fetched # {}
    /\ NoDataFoundAtAll

---------------------------------------------------------------------------
(* Tickers given twice to a QLibDataProvider                               *)

\* No label stands twice in the list.
NoRepetition(s) == \A a, b \in DOMAIN s : s[a] = s[b] => a = b

\* The list keeps the elements of the other in the order of their first
\* occurrences.
FirstOccurrencesOf(s, given) ==
    /\ NoRepetition(s)
    /\ Range(s) = Range(given)
    /\ \A a, b \in DOMAIN s :
           a < b => IndexOf(given, s[a]) < IndexOf(given, s[b])

---------------------------------------------------------------------------
(* The frequency of the bars a QLibDataProvider loads                      *)

\* The frequency D.features answers at when none is passed.
FeaturesDefaultFreq == "day"

\* The frequency a request to the archive asks for.
RequestedFreq(r) == IF "freq" \in DOMAIN r THEN r.freq ELSE FeaturesDefaultFreq

\* C27: the feature request the constructor sends to the archive asks for
\* the frequency the constructor was given, whichever of the supported
\* frequencies that is.
C27_FeaturesCarryFrequency ==
    \A k \in DOMAIN requests :
        requests[k].call = "features" =>
            RequestedFreq(requests[k]) = freq_to_qlib_freq(frequency)

\* The request for the members of an index does carry the frequency
\* (line 226), and the feature request is right for a daily provider.
C27_MembersCarryFrequency ==
    \A k \in DOMAIN requests :
        /\ requests[k].call = "list_instruments" =>
               requests[k].freq = freq_to_qlib_freq(frequency)
        /\ (requests[k].call = "features" /\ frequency = DAILY) =>
               RequestedFreq(requests[k]) = freq_to_qlib_freq(frequency)

\* A provider constructed at another frequency than daily around bars it
\* fetched, and one that asked for the members of an index on the way.
C27_WitnessLoaded ==
    /\ Constructed
    /\ frequency # DAILY
    /\ \E k \in DOMAIN requests : requests[k].call = "list_instruments"

---------------------------------------------------------------------------
(* The field axis of a provider constructed without a field list           *)

\* The names the data columns of the archive are renamed to.
RenamedColumns == {"open", "close", "high", "low", "volume"}

\* The price fields the constructor was asked to map columns to.
MappedPriceFields ==
    {loc.field_to_price_field_dict[k][2] : k \in DOMAIN loc.field_to_price_field_dict}

\* C28: a provider constructed without a field list has, on the field axis
\* of its cube, only renamed data columns and mapped price fields; the
\* "instrument" column of the archive's response is not a field.
C28_OnlyDataColumnsAreFields ==
    (Constructed /\ fields_arg.py = "NoneType") =>
        Range(result.labels["fields"]) \subseteq RenamedColumns \cup MappedPriceFields

\* With a field list the field axis is that list and the mapped price
\* fields, and nothing else.
C28_FieldListIsKept ==
    (Constructed /\ fields_arg.py # "NoneType") =>
        Range(result.labels["fields"]) = Range(loc.fields) \cup MappedPriceFields

---------------------------------------------------------------------------
(* The requests of one ticker's paging                                     *)

\* A request for a page of bars (lines 152 and 158).
IsHistoryRequest(r) == "page_req_key" \in DOMAIN r

\* The k-th request asks for the first page of a ticker.
FirstPageAt(k) ==
    /\ IsHistoryRequest(requests[k])
    /\ requests[k].page_req_key = NoPageKey

\* The position of the last request of the paging that begins at k.
PagingEnd(k) ==
    CHOOSE j \in k..Len(requests) :
        /\ \A m \in (k + 1)..j : IsHistoryRequest(requests[m]) /\ ~FirstPageAt(m)
        /\ j = Len(requests) \/ ~IsHistoryRequest(requests[j + 1]) \/ FirstPageAt(j + 1)

\* The request was answered RET_OK with the key of a further page.
CarriedKey(r) ==
    /\ r.ret = "RET_OK"
    /\ SourcePage(r.ticker, r.start, r.end, r.ktype, r.page_req_key).page_req_key
           # NoPageKey

\* The paging that begins at k is not waiting for its next request.
PagingOver(k) == PagingEnd(k) < Len(requests) \/ pc # "while"

\* The call is over: it returned or it raised.
CallEnded == pc \in {"done", "raised"}

\* C29 (the count): once the paging of a ticker is over, the ticker was
\* sent one request, and one more for every response that was successful
\* and carried a page key.
C29_OneRequestPerPageKey ==
    \A k \in DOMAIN requests :
        (FirstPageAt(k) /\ PagingOver(k)) =>
            PagingEnd(k) - k + 1 =
                1 + Cardinality({j \in k..PagingEnd(k) : CarriedKey(requests[j])})

\* The same count for the pagings that no exception cut short.
C29_OneRequestPerPageKeyUnlessRaised ==
    \A k \in DOMAIN requests :
        (FirstPageAt(k) /\ PagingOver(k)
            /\ ~(pc = "raised" /\ PagingEnd(k) = Len(requests))) =>
            PagingEnd(k) - k + 1 =
                1 + Cardinality({j \in k..PagingEnd(k) : CarriedKey(requests[j])})

\* C29 (the errors): a request answered with an error code is the last of
\* its ticker, be it the first page or a later one.
C29_ErrorEndsPaging ==
    \A k \in DOMAIN requests :
        (IsHistoryRequest(requests[k]) /\ requests[k].ret # "RET_OK" /\ k < Len(requests)) =>
            FirstPageAt(k + 1)

\* More pages than any ticker has in the window.
PagesBound == MaxDay * 24 + 1

\* The steps one ticker can take at most: a request and a frame per page.
TickerBudget == 2 * PagesBound + 3

\* A measure of what is left of the call.
StepsLeft ==
    LET after == 2 + (Len(loc.tickers) - i) * TickerBudget
    IN  CASE CallEnded       -> 0
          [] pc = "assemble" -> 1
          [] pc = "for"      -> after + TickerBudget
          [] pc = "process"  -> after + 1
          [] pc = "while"    -> after + 2 + 2 * (PagesBound - page_req_key)
          [] pc = "open"     -> 3 + (Len(loc.tickers) + 1) * TickerBudget
          [] OTHER           -> 4 + (MaxTickers + 2) * TickerBudget

\* C29 (termination): every step of get_history leaves less to do, so
\* that the call cannot go on for ever.
C29_EveryStepLeavesLess == [][StepsLeft' < StepsLeft]_vars

\* C29 (termination): what is left is never negative, and a call that is
\* not over can take a step.
C29_NeverStuck ==
    /\ StepsLeft >= 0
    /\ ~CallEnded => ENABLED Next

\* A call that returned after a ticker of two pages whose second request
\* was answered with an error code, and after a ticker whose first request
\* was.
C29_Witness ==
    /\ pc = "done"
    /\ \E k \in DOMAIN requests :
          /\ FirstPageAt(k) /\ PagingEnd(k) = k + 1
          /\ requests[k + 1].ret # "RET_OK"
    /\ \E k \in DOMAIN requests :
          /\ FirstPageAt(k) /\ requests[k].ret # "RET_OK"

---------------------------------------------------------------------------
(* The quote connection of a call                                          *)

\* get_history([], fields, ...): a call for no ticker at all.
CallNoTickers ==
    /\ pc = "idle"
    /\ \E f_arg \in FieldArgs, s \in Days, e \in Days, bias \in BOOLEAN :
          /\ s <= e
          /\ CallWith(PyList(<<>>), f_arg, DateTime(s, 0, 0, 0), DateTime(e, 0, 0, 0),
                      bias, DAILY, DateTime(MaxDay, 16, 0, 0))

NextConnection ==
    \/ Call
    \/ CallNoTickers
    \/ OpenQuoteContext
    \/ RequestFirstPage
    \/ RequestNextPage
    \/ ProcessFrame
    \/ CloseQuoteContext
    \/ Return

SpecConnection == Init /\ [][NextConnection]_vars

\* The connection is opened in this step.
Opens == quote_ctx # "open" /\ quote_ctx' = "open"

\* The connection is closed in this step.
Closes == quote_ctx # "closed" /\ quote_ctx' = "closed"

\* C30: a call opens its connection once, out of no connection at all, and
\* closes it once, out of the open one; every request for bars is sent
\* while the connection is open; and a call that returns has closed it,
\* whatever the tickers were and however their requests were answered.
C30_OneConnectionPerCall ==
    /\ [][/\ quote_ctx' # quote_ctx => Opens \/ Closes
          /\ Opens => quote_ctx = "none"
          /\ Closes => quote_ctx = "open"
          /\ requests' # requests => quote_ctx = "open" /\ quote_ctx' = "open"]_vars
    /\ [](pc \in {"idle", "open"} => quote_ctx = "none")
    /\ [](requests # <<>> => quote_ctx # "none")
    /\ [](pc \in {"assemble", "done"} => quote_ctx = "closed")

\* A call for no ticker that returned: the connection was opened and is
\* closed, and no request was sent.
C30_Witness ==
    /\ pc = "done"
    /\ tickers_arg = PyList(<<>>)
    /\ requests = <<>>
    /\ quote_ctx = "closed"

\* A call that returned after each of its two tickers was answered with an
\* error code.
C30_WitnessAllFailed ==
    /\ pc = "done"
    /\ Len(requests) = 2
    /\ \A k \in DOMAIN requests : requests[k].ret # "RET_OK"
    /\ quote_ctx = "closed"

============================================================================
